---- MODULE Spec2Model ----
(***************************************************************************)
(* Model of the ARM32 integrated assembler of Subzero                      *)
(* (src/src/IceAssemblerARM32.cpp): instruction encoding, the assembler    *)
(* buffer, labels threaded through unresolved branch words, and fixups.    *)
(*                                                                         *)
(* A 32-bit value (IValueT) is a record [hi, lo]: hi holds bits 24..31 and *)
(* lo holds bits 0..23, so that no integer of the model exceeds 31 bits.   *)
(* The buffer is a sequence of bytes; a word is stored little-endian.      *)
(*                                                                         *)
(* The module also models the table of CFG node labels of the assembler    *)
(* and, from src/src/Reactor/SubzeroReactor.cpp, the in-memory ELF         *)
(* streamer (ELFMemoryStreamer) and the construction and destruction of    *)
(* Nucleus objects by several threads.                                     *)
(***************************************************************************)
EXTENDS Integers, Sequences, FiniteSets, TLC

VARIABLES Buffer, Labels, Fixups, Fatal, lastOp, fwdRefs

\* The table of CFG node labels and the number of Label objects allocated.
VARIABLES CfgNodeLabels, Allocated

\* ELFMemoryStreamer: its fields, the protection of the buffer's memory and
\* the number of image loads performed.
VARIABLES buffer, position, entry, oldProtection, protection, loads

\* Nucleus: the mutex, the place of each thread, the globals of the code
\* generator and the threads that had to wait for the mutex.
VARIABLES codegenMutex, pc, context, function, routine, waited

labelVars == <<CfgNodeLabels, Allocated>>
streamerVars == <<buffer, position, entry, oldProtection, protection, loads>>
nucleusVars == <<codegenMutex, pc, context, function, routine, waited>>

vars == <<Buffer, Labels, Fixups, Fatal, lastOp, fwdRefs, labelVars, streamerVars, nucleusVars>>

\* A step of the assembler alone.
AssemblerOnly == UNCHANGED <<labelVars, streamerVars, nucleusVars>>

(***************************************************************************)
(* Bounds of the model.                                                    *)
(***************************************************************************)
\* Number of instruction words the label machine may append.
MaxWords == 4
\* Number of labels of the function being assembled.
NumLabels == 2
\* Number of offsets sampled next to each edge of the branch range.
CodecSpan == 12
\* Number of text annotations a function may carry.
MaxTextInsts == 1
\* Largest CFG node number looked up in the label table.
MaxNode == 2
\* Number of instruction words appended while the label table is exercised.
MaxLabelWords == 2
\* Number of bytes the ELF streamer may hold.
MaxBytes == 3
\* Number of image loads followed.
MaxLoads == 2
\* Number of threads that construct and destroy Nucleus objects.
NumThreads == 3

LabelIds == 0 .. (NumLabels - 1)

(***************************************************************************)
(* 32-bit arithmetic on [hi, lo] records.                                  *)
(***************************************************************************)
RECURSIVE BitOr(_, _)
BitOr(a, b) ==
  IF a = 0 THEN b
  ELSE IF b = 0 THEN a
  ELSE (IF a % 2 = 1 \/ b % 2 = 1 THEN 1 ELSE 0) + 2 * BitOr(a \div 2, b \div 2)

RECURSIVE BitAnd(_, _)
BitAnd(a, b) ==
  IF a = 0 \/ b = 0 THEN 0
  ELSE (IF a % 2 = 1 /\ b % 2 = 1 THEN 1 ELSE 0) + 2 * BitAnd(a \div 2, b \div 2)

RECURSIVE BitXor(_, _)
BitXor(a, b) ==
  IF a = 0 THEN b
  ELSE IF b = 0 THEN a
  ELSE (IF (a % 2) # (b % 2) THEN 1 ELSE 0) + 2 * BitXor(a \div 2, b \div 2)

\* The 32-bit value of a natural below 2^31.
ToW(n) == [hi |-> n \div (2 ^ 24), lo |-> n % (2 ^ 24)]

\* (n << s) as a 32-bit value, for a natural n below 2^31 and 0 <= s < 32.
Shl(n, s) ==
  IF s >= 24
  THEN [hi |-> (n * (2 ^ (s - 24))) % 256, lo |-> 0]
  ELSE [hi |-> (n \div (2 ^ (24 - s))) % 256,
        lo |-> (n % (2 ^ (24 - s))) * (2 ^ s)]

OrW(a, b) == [hi |-> BitOr(a.hi, b.hi), lo |-> BitOr(a.lo, b.lo)]

AndW(a, b) == [hi |-> BitAnd(a.hi, b.hi), lo |-> BitAnd(a.lo, b.lo)]

XorW(a, b) == [hi |-> BitXor(a.hi, b.hi), lo |-> BitXor(a.lo, b.lo)]

ZeroW == [hi |-> 0, lo |-> 0]

\* Rotate a 32-bit value left by one bit, and by k bits.
RotL1(w) == [hi |-> ((w.hi * 2) % 256) + (w.lo \div (2 ^ 23)),
             lo |-> ((w.lo * 2) % (2 ^ 24)) + (w.hi \div 128)]

RECURSIVE RotL(_, _)
RotL(w, k) == IF k = 0 THEN w ELSE RotL(RotL1(w), k - 1)

(***************************************************************************)
(* Constants of the encoder (IceAssemblerARM32.cpp, anonymous namespace).  *)
(***************************************************************************)
kWordSize == 4
kConditionShift == 28
kLinkShift == 24
kOpcodeShift == 21
kRdShift == 12
kRmShift == 0
kRnShift == 16
kRsShift == 8
kSShift == 20
kTypeShift == 25
kImmed8Bits == 8
kImmed8Shift == 0
kRotateBits == 4
kRotateShift == 8
kShiftImmShift == 7
kShiftImmBits == 5
kShiftShift == 5
kInstTypeDataRegister == 0
kInstTypeDataRegShift == 0
kInstTypeDataImmediate == 1
kInstTypeMemImmediate == 2
kInstTypeRegisterShift == 3
kPCReadOffset == 8
kBranchOffsetBits == 24
\* 0x00ffffff
kBranchOffsetMask == 16777215

\* Single bits B0..B27 and the memory-operation bits L, W, B, U, P.
Bit(n) == Shl(1, n)
L == Shl(1, 20)
W == Shl(1, 21)
B == Shl(1, 22)
U == Shl(1, 23)
P == Shl(1, 24)

isBitSet(BitW, Value) == AndW(Value, BitW) = BitW

\* Register numbers and conditions of the target (RegARM32, CondARM32).
Encoded_Reg_r0 == 0
Encoded_Reg_sp == 13
Encoded_Reg_pc == 15
getNumGPRegs == 16
CondEQ == 0
CondNE == 1
CondAL == 14
kNone == 15
isDefined(Cond) == Cond # kNone
encodeCondition(Cond) == Cond
encodeBool(Flag) == IF Flag THEN 1 ELSE 0

\* Utils::IsAligned, Utils::IsInt and Utils::IsAbsoluteUint on integers.
IsAligned(X, N) == X % N = 0
IsInt(N, X) == -(2 ^ (N - 1)) <= X /\ X < 2 ^ (N - 1)
IsAbsoluteUint(N, X) == (IF X < 0 THEN -X ELSE X) < 2 ^ N

(***************************************************************************)
(* Results: an operation either yields a value or is a fatal error, which  *)
(* ends code generation.                                                   *)
(***************************************************************************)
NoError == "none"
Ok(v) == [fatal |-> NoError, value |-> v]
Err(msg) == [fatal |-> msg, value |-> ZeroW]
IsOk(r) == r.fatal = NoError

(***************************************************************************)
(* AssemblerBuffer: size, emit, load and store of 32-bit words.            *)
(***************************************************************************)
BufferSize(buf) == Len(buf)

WordBytes(w) ==
  << w.lo % 256, (w.lo \div 256) % 256, w.lo \div 65536, w.hi >>

\* emitInst: append one word at the end of the buffer.
emitInst(buf, w) == buf \o WordBytes(w)

\* Buffer.load<IValueT>(Position)
BufferLoad(buf, Position) ==
  [hi |-> buf[Position + 4],
   lo |-> buf[Position + 1] + 256 * buf[Position + 2] + 65536 * buf[Position + 3]]

\* Buffer.store<IValueT>(Position, Value)
BufferStore(buf, Position, w) ==
  [i \in 1 .. Len(buf) |->
     IF i > Position /\ i <= Position + 4 THEN WordBytes(w)[i - Position]
     ELSE buf[i]]

(***************************************************************************)
(* Label: one integer Position. 0 = unused, > 0 = linked (position of the  *)
(* most recent pending branch + kLabelWordSize), < 0 = bound.              *)
(***************************************************************************)
kLabelWordSize == 4
isBound(Pos) == Pos < 0
isLinked(Pos) == Pos > 0
isUnused(Pos) == Pos = 0
getPosition(Pos) == -Pos - kLabelWordSize
getLinkPosition(Pos) == Pos - kLabelWordSize
getEncodedPosition(Pos) == Pos
bindTo(Position_) == -Position_ - kLabelWordSize
linkTo(Position_) == Position_ + kLabelWordSize

(***************************************************************************)
(* Branch displacement codec.                                              *)
(***************************************************************************)
\* Checks that Offset can fit in imm24 constant of branch (b) instruction.
\* Offset >> 2 is an arithmetic shift: the floor of Offset / 4.
canEncodeBranchOffset(Offset) ==
  IsAligned(Offset, 4) /\ IsInt(kBranchOffsetBits, Offset \div 4)

\* Variant of encodeBranchOffset without the range assertion: the offset is
\* shifted and masked whatever its value.
encodeBranchOffset_unchecked(Offset, Inst) ==
  LET Adj == Offset - kPCReadOffset
  IN Ok([hi |-> Inst.hi, lo |-> (Adj \div 4) % (kBranchOffsetMask + 1)])

\* encodeBranchOffset(Offset, Inst): the assertion fails for an offset that
\* does not fit; otherwise the low 24 bits of Inst are replaced.
encodeBranchOffset(Offset, Inst) ==
  LET Adj == Offset - kPCReadOffset
  IN IF ~canEncodeBranchOffset(Adj)
     THEN Err("assert: IsGoodOffset")
     ELSE Ok([hi |-> Inst.hi,
              lo |-> (Adj \div 4) % (kBranchOffsetMask + 1)])

\* Variant of decodeBranchOffset that does not sign-extend the field.
decodeBranchOffset_unsigned(Inst) == Inst.lo * 4 + kPCReadOffset

\* decodeBranchOffset(Inst): sign-extend the low 24 bits, shift left by 2,
\* add the PC read offset.
decodeBranchOffset(Inst) ==
  LET Field == Inst.lo
      Signed == IF Field >= 2 ^ (kBranchOffsetBits - 1)
                THEN Field - 2 ^ kBranchOffsetBits ELSE Field
  IN Signed * 4 + kPCReadOffset

(***************************************************************************)
(* Branch emission.                                                        *)
(***************************************************************************)
\* emitType05: cccc101l iiiiiiiiiiiiiiiiiiiiiiii, the word to be emitted.
emitType05(Cond, Offset, Link) ==
  IF ~isDefined(Cond) THEN Err("assert: isDefined(Cond)")
  ELSE LET Encoding == OrW(OrW(Shl(Cond, kConditionShift), Shl(5, kTypeShift)),
                           Shl(IF Link THEN 1 ELSE 0, kLinkShift))
       IN encodeBranchOffset(Offset, Encoding)

\* Variant of the loop of bind that patches only the most recent site.
bindLoop_headOnly(buf, Pos, BoundPc) ==
  IF ~isLinked(Pos) THEN [buf |-> buf, pos |-> Pos, fatal |-> NoError]
  ELSE LET Position == getLinkPosition(Pos)
           Enc == encodeBranchOffset(BoundPc - Position, BufferLoad(buf, Position))
       IN IF ~IsOk(Enc) THEN [buf |-> buf, pos |-> Pos, fatal |-> Enc.fatal]
          ELSE [buf |-> BufferStore(buf, Position, Enc.value), pos |-> 0,
                fatal |-> NoError]

\* Variant of the loop of bind that takes the displacement from the
\* instruction after the site.
RECURSIVE bindLoop_fromNext(_, _, _)
bindLoop_fromNext(buf, Pos, BoundPc) ==
  IF ~isLinked(Pos) THEN [buf |-> buf, pos |-> Pos, fatal |-> NoError]
  ELSE LET Position == getLinkPosition(Pos)
           Dest == BoundPc - (Position + kWordSize)
           Inst == BufferLoad(buf, Position)
           Enc == encodeBranchOffset(Dest, Inst)
       IN IF ~IsOk(Enc) THEN [buf |-> buf, pos |-> Pos, fatal |-> Enc.fatal]
          ELSE bindLoop_fromNext(BufferStore(buf, Position, Enc.value),
                                 decodeBranchOffset(Inst), BoundPc)

\* Variant of the loop of bind that stores the displacement field alone,
\* dropping bits 24..31 of the patched word.
RECURSIVE bindLoop_fieldOnly(_, _, _)
bindLoop_fieldOnly(buf, Pos, BoundPc) ==
  IF ~isLinked(Pos) THEN [buf |-> buf, pos |-> Pos, fatal |-> NoError]
  ELSE LET Position == getLinkPosition(Pos)
           Dest == BoundPc - Position
           Inst == BufferLoad(buf, Position)
           Enc == encodeBranchOffset(Dest, Inst)
       IN IF ~IsOk(Enc) THEN [buf |-> buf, pos |-> Pos, fatal |-> Enc.fatal]
          ELSE bindLoop_fieldOnly(BufferStore(buf, Position, [hi |-> 0, lo |-> Enc.value.lo]),
                                  decodeBranchOffset(Inst), BoundPc)

\* Variant of the loop of bind that stops at the site holding the
\* end-of-chain sentinel without patching it.
RECURSIVE bindLoop_skipsOldest(_, _, _)
bindLoop_skipsOldest(buf, Pos, BoundPc) ==
  IF ~isLinked(Pos) THEN [buf |-> buf, pos |-> Pos, fatal |-> NoError]
  ELSE LET Position == getLinkPosition(Pos)
           Dest == BoundPc - Position
           Inst == BufferLoad(buf, Position)
           Enc == encodeBranchOffset(Dest, Inst)
       IN IF ~IsOk(Enc) THEN [buf |-> buf, pos |-> Pos, fatal |-> Enc.fatal]
          ELSE IF ~isLinked(decodeBranchOffset(Inst))
          THEN [buf |-> buf, pos |-> decodeBranchOffset(Inst), fatal |-> NoError]
          ELSE bindLoop_skipsOldest(BufferStore(buf, Position, Enc.value),
                                    decodeBranchOffset(Inst), BoundPc)

\* The loop of bind: patch every pending site of the chain that starts at
\* the label position Pos.  Yields the buffer, the label position after the
\* loop and the failed assertion, if any.
RECURSIVE bindLoop(_, _, _)
bindLoop(buf, Pos, BoundPc) ==
  IF ~isLinked(Pos) THEN [buf |-> buf, pos |-> Pos, fatal |-> NoError]
  ELSE LET Position == getLinkPosition(Pos)
           Dest == BoundPc - Position
           Inst == BufferLoad(buf, Position)
           Enc == encodeBranchOffset(Dest, Inst)
       IN IF ~IsOk(Enc) THEN [buf |-> buf, pos |-> Pos, fatal |-> Enc.fatal]
          ELSE bindLoop(BufferStore(buf, Position, Enc.value),
                        decodeBranchOffset(Inst), BoundPc)

\* A fatal error ends code generation: nothing else changes.
Abort(msg, op) ==
  /\ Fatal' = msg
  /\ lastOp' = op
  /\ UNCHANGED <<Buffer, Labels, Fixups, fwdRefs>>

\* Variant of bind without the check that the label is unbound.
bind_rebind(Lid) ==
  /\ Fatal = NoError
  /\ LET BoundPc == BufferSize(Buffer)
         walk == bindLoop(Buffer, Labels[Lid], BoundPc)
     IN /\ Buffer' = walk.buf
        /\ Fatal' = walk.fatal
        /\ Labels' = [Labels EXCEPT ![Lid] =
                        IF walk.fatal = NoError THEN bindTo(BoundPc) ELSE walk.pos]
        /\ lastOp' = [name |-> "bind", label |-> Lid, size |-> BoundPc]
        /\ UNCHANGED <<Fixups, fwdRefs>>

\* AssemblerARM32::bind(Label *L)
bind(Lid) ==
  /\ Fatal = NoError
  /\ LET BoundPc == BufferSize(Buffer)
         op == [name |-> "bind", label |-> Lid, size |-> BoundPc]
     IN IF isBound(Labels[Lid])
        THEN Abort("assert: !L->isBound()", op)
        ELSE LET walk == bindLoop(Buffer, Labels[Lid], BoundPc)
             IN /\ Buffer' = walk.buf
                /\ Fatal' = walk.fatal
                /\ Labels' = [Labels EXCEPT ![Lid] =
                                IF walk.fatal = NoError THEN bindTo(BoundPc)
                                ELSE walk.pos]
                /\ lastOp' = op
                /\ UNCHANGED <<Fixups, fwdRefs>>

\* Variant of emitBranch that links the site to the label even when the
\* label is bound.
emitBranch_relink(Lid, Cond, Link, opname) ==
  LET Position == BufferSize(Buffer)
      op == [name |-> opname, label |-> Lid, cond |-> Cond, size |-> Position,
             wasBound |-> isBound(Labels[Lid]), prev |-> Labels[Lid]]
      Enc == emitType05(Cond, getEncodedPosition(Labels[Lid]), Link)
  IN IF ~IsOk(Enc) THEN Abort(Enc.fatal, op)
     ELSE /\ Buffer' = emitInst(Buffer, Enc.value)
          /\ Labels' = [Labels EXCEPT ![Lid] = linkTo(Position)]
          /\ fwdRefs' = [fwdRefs EXCEPT ![Lid] = @ \cup {Position}]
          /\ lastOp' = op
          /\ UNCHANGED <<Fixups, Fatal>>

\* Variant of emitBranch that threads every site through the chain head of
\* the first label.
emitBranch_sharedHead(Lid, Cond, Link, opname) ==
  LET Size == BufferSize(Buffer)
      op == [name |-> opname, label |-> Lid, cond |-> Cond, size |-> Size,
             wasBound |-> isBound(Labels[Lid]), prev |-> Labels[Lid]]
  IN IF isBound(Labels[Lid])
     THEN LET Enc == emitType05(Cond, getPosition(Labels[Lid]) - Size, Link)
          IN IF ~IsOk(Enc) THEN Abort(Enc.fatal, op)
             ELSE /\ Buffer' = emitInst(Buffer, Enc.value)
                  /\ lastOp' = op
                  /\ UNCHANGED <<Labels, Fixups, Fatal, fwdRefs>>
     ELSE LET Enc == emitType05(Cond, getEncodedPosition(Labels[0]), Link)
          IN IF ~IsOk(Enc) THEN Abort(Enc.fatal, op)
             ELSE /\ Buffer' = emitInst(Buffer, Enc.value)
                  /\ Labels' = [Labels EXCEPT ![Lid] = linkTo(Size)]
                  /\ fwdRefs' = [fwdRefs EXCEPT ![Lid] = @ \cup {Size}]
                  /\ lastOp' = op
                  /\ UNCHANGED <<Fixups, Fatal>>

\* Variant of emitBranch that links the label to the site before it encodes
\* the link, so that the word links to itself.
emitBranch_linkFirst(Lid, Cond, Link, opname) ==
  LET Size == BufferSize(Buffer)
      op == [name |-> opname, label |-> Lid, cond |-> Cond, size |-> Size,
             wasBound |-> isBound(Labels[Lid]), prev |-> Labels[Lid]]
  IN IF isBound(Labels[Lid])
     THEN LET Enc == emitType05(Cond, getPosition(Labels[Lid]) - Size, Link)
          IN IF ~IsOk(Enc) THEN Abort(Enc.fatal, op)
             ELSE /\ Buffer' = emitInst(Buffer, Enc.value)
                  /\ lastOp' = op
                  /\ UNCHANGED <<Labels, Fixups, Fatal, fwdRefs>>
     ELSE LET Enc == emitType05(Cond, getEncodedPosition(linkTo(Size)), Link)
          IN IF ~IsOk(Enc) THEN Abort(Enc.fatal, op)
             ELSE /\ Buffer' = emitInst(Buffer, Enc.value)
                  /\ Labels' = [Labels EXCEPT ![Lid] = linkTo(Size)]
                  /\ fwdRefs' = [fwdRefs EXCEPT ![Lid] = @ \cup {Size}]
                  /\ lastOp' = op
                  /\ UNCHANGED <<Fixups, Fatal>>

\* Variant of emitBranch that measures the displacement to a bound label
\* from the end of the branch word.
emitBranch_fromNext(Lid, Cond, Link, opname) ==
  LET Size == BufferSize(Buffer)
      op == [name |-> opname, label |-> Lid, cond |-> Cond, size |-> Size,
             wasBound |-> isBound(Labels[Lid]), prev |-> Labels[Lid]]
  IN IF isBound(Labels[Lid])
     THEN LET Enc == emitType05(Cond, getPosition(Labels[Lid]) - (Size + kWordSize), Link)
          IN IF ~IsOk(Enc) THEN Abort(Enc.fatal, op)
             ELSE /\ Buffer' = emitInst(Buffer, Enc.value)
                  /\ lastOp' = op
                  /\ UNCHANGED <<Labels, Fixups, Fatal, fwdRefs>>
     ELSE LET Enc == emitType05(Cond, getEncodedPosition(Labels[Lid]), Link)
          IN IF ~IsOk(Enc) THEN Abort(Enc.fatal, op)
             ELSE /\ Buffer' = emitInst(Buffer, Enc.value)
                  /\ Labels' = [Labels EXCEPT ![Lid] = linkTo(Size)]
                  /\ fwdRefs' = [fwdRefs EXCEPT ![Lid] = @ \cup {Size}]
                  /\ lastOp' = op
                  /\ UNCHANGED <<Fixups, Fatal>>

\* AssemblerARM32::emitBranch(Label *L, CondARM32::Cond Cond, bool Link)
emitBranch(Lid, Cond, Link, opname) ==
  LET Size == BufferSize(Buffer)
      op == [name |-> opname, label |-> Lid, cond |-> Cond, size |-> Size,
             wasBound |-> isBound(Labels[Lid]), prev |-> Labels[Lid]]
  IN IF isBound(Labels[Lid])
     THEN LET Dest == getPosition(Labels[Lid]) - Size
              Enc == emitType05(Cond, Dest, Link)
          IN IF ~IsOk(Enc) THEN Abort(Enc.fatal, op)
             ELSE /\ Buffer' = emitInst(Buffer, Enc.value)
                  /\ lastOp' = op
                  /\ UNCHANGED <<Labels, Fixups, Fatal, fwdRefs>>
     ELSE LET Position == Size
              Enc == emitType05(Cond, getEncodedPosition(Labels[Lid]), Link)
          IN IF ~IsOk(Enc) THEN Abort(Enc.fatal, op)
             ELSE /\ Buffer' = emitInst(Buffer, Enc.value)
                  /\ Labels' = [Labels EXCEPT ![Lid] = linkTo(Position)]
                  /\ fwdRefs' = [fwdRefs EXCEPT ![Lid] = @ \cup {Position}]
                  /\ lastOp' = op
                  /\ UNCHANGED <<Fixups, Fatal>>

\* AssemblerARM32::b(Label *L, CondARM32::Cond Cond)
b(Lid, Cond) ==
  /\ Fatal = NoError
  /\ BufferSize(Buffer) < MaxWords * kWordSize
  /\ emitBranch(Lid, Cond, FALSE, "b")

\* nop: cccc0011001000001111000000000000 with cccc = AL.
NopWord ==
  OrW(Shl(encodeCondition(CondAL), kConditionShift),
      OrW(OrW(Bit(25), Bit(24)),
          OrW(OrW(Bit(21), Bit(15)), OrW(Bit(14), OrW(Bit(13), Bit(12))))))

\* AssemblerARM32::nop()
nop ==
  /\ Fatal = NoError
  /\ BufferSize(Buffer) < MaxWords * kWordSize
  /\ Buffer' = emitInst(Buffer, NopWord)
  /\ lastOp' = [name |-> "nop", size |-> BufferSize(Buffer)]
  /\ UNCHANGED <<Labels, Fixups, Fatal, fwdRefs>>

\* The buffer after n calls of nop().
RECURSIVE nopTimes(_, _)
nopTimes(buf, n) == IF n = 0 THEN buf ELSE nopTimes(emitInst(buf, NopWord), n - 1)

\* AssemblerARM32::padWithNop(intptr_t Padding)
padWithNop(Padding) ==
  /\ Fatal = NoError
  /\ BufferSize(Buffer) + Padding <= MaxWords * kWordSize
  /\ lastOp' = [name |-> "padWithNop", padding |-> Padding, size |-> BufferSize(Buffer)]
  /\ IF Padding % kWordSize # 0
     THEN /\ Fatal' = "assert: Padding not multiple of instruction size"
          /\ UNCHANGED Buffer
     ELSE /\ Buffer' = nopTimes(Buffer, Padding \div kWordSize)
          /\ UNCHANGED Fatal
  /\ UNCHANGED <<Labels, Fixups, fwdRefs>>

\* Relocation kinds (llvm::ELF).
R_ARM_CALL == 28
R_ARM_MOVW_ABS_NC == 43
R_ARM_MOVT_ABS == 44

\* emitFixup(createBlFixup(Target)): the fixup is installed at the end of
\* the list with the current buffer size as its position.
createFixup(fixups, Kind, Value, Position) ==
  Append(fixups, [position |-> Position, kind |-> Kind, value |-> Value])

\* Variant of bl that threads its placeholder word through the chain of the
\* first label, as a branch to a label would.
bl_joinsChain(Target) ==
  /\ Fatal = NoError
  /\ BufferSize(Buffer) < MaxWords * kWordSize
  /\ LET Position == BufferSize(Buffer)
         Enc == emitType05(CondAL, getEncodedPosition(Labels[0]), TRUE)
     IN /\ Fixups' = createFixup(Fixups, R_ARM_CALL, Target, Position)
        /\ Buffer' = emitInst(Buffer, Enc.value)
        /\ Labels' = [Labels EXCEPT ![0] = IF isBound(@) THEN @ ELSE linkTo(Position)]
        /\ lastOp' = [name |-> "bl", target |-> Target, size |-> Position]
        /\ UNCHANGED <<Fatal, fwdRefs>>

\* AssemblerARM32::bl(const ConstantRelocatable *Target)
bl(Target) ==
  /\ Fatal = NoError
  /\ BufferSize(Buffer) < MaxWords * kWordSize
  /\ LET Enc == emitType05(CondAL, 0, TRUE)
         op == [name |-> "bl", target |-> Target, size |-> BufferSize(Buffer)]
     IN /\ Fixups' = createFixup(Fixups, R_ARM_CALL, Target, BufferSize(Buffer))
        /\ IF ~IsOk(Enc)
           THEN /\ Fatal' = Enc.fatal
                /\ UNCHANGED Buffer
           ELSE /\ Buffer' = emitInst(Buffer, Enc.value)
                /\ UNCHANGED Fatal
        /\ lastOp' = op
        /\ UNCHANGED <<Labels, fwdRefs>>

(***************************************************************************)
(* Operands (Ice::Operand and its ARM32 subclasses) as records.            *)
(***************************************************************************)
Reg(n) == [kind |-> "Variable", hasReg |-> TRUE, RegNum |-> n]
StackVar(off) == [kind |-> "Variable", hasReg |-> FALSE, StackOffset |-> off]
FlexImm(imm, rot) == [kind |-> "FlexImm", Imm |-> imm, RotateAmt |-> rot]
Const32(w) == [kind |-> "ConstantInteger32", Value |-> w]
ShAmtImm(n) == [kind |-> "ShAmtImm", ShAmtImm |-> n]
FlexReg(r, op, amt) == [kind |-> "FlexReg", Reg |-> r, ShiftOp |-> op, ShiftAmt |-> amt]
Relocatable(sym) == [kind |-> "ConstantRelocatable", Name |-> sym]

\* encodeShift: ARM section A8.4.1 "Constant shifts".
encodeShift(Shift) ==
  CASE Shift \in {"kNoShift", "LSL"} -> 0
    [] Shift = "LSR" -> 1
    [] Shift = "ASR" -> 2
    [] Shift \in {"ROR", "RRX"} -> 3

\* encodeRotatedImm8: rrrriiiiiiii.
encodeRotatedImm8(RotateAmt, Immed8) ==
  IF ~(RotateAmt < 2 ^ kRotateBits) THEN Err("assert: RotateAmt < (1 << kRotateBits)")
  ELSE IF ~(Immed8 < 2 ^ kImmed8Bits) THEN Err("assert: Immed8 < (1 << kImmed8Bits)")
  ELSE Ok(OrW(Shl(RotateAmt, kRotateShift), Shl(Immed8, kImmed8Shift)))

\* Variant of encodeShiftRotateImm5 without the range check on imm5.
encodeShiftRotateImm5_unchecked(Rm, Shift, imm5) ==
  Ok(OrW(OrW(Shl(imm5, kShiftImmShift), Shl(encodeShift(Shift), kShiftShift)),
         ToW(Rm)))

\* encodeShiftRotateImm5: iiiiitt0mmmm.
encodeShiftRotateImm5(Rm, Shift, imm5) ==
  IF ~(imm5 < 2 ^ kShiftImmBits) THEN Err("assert: imm5 < (1 << kShiftImmBits)")
  ELSE Ok(OrW(OrW(Shl(imm5, kShiftImmShift), Shl(encodeShift(Shift), kShiftShift)),
              ToW(Rm)))

\* encodeShiftRotateReg: ssss0tt1mmmm.
encodeShiftRotateReg(Rm, Shift, Rs) ==
  OrW(OrW(Shl(Rs, kRsShift), Shl(encodeShift(Shift), kShiftShift)),
      OrW(Bit(4), Shl(Rm, kRmShift)))

\* The result of encodeOperand: the EncodedOperand tag and Value.
Encoded(tag, v) == [enc |-> tag, value |-> v, fatal |-> NoError]
EncFatal(msg) == [enc |-> "CantEncode", value |-> ZeroW, fatal |-> msg]

\* encodeOperand(Opnd, Value, WantedRegSet).  Register numbers of the three
\* register sets are kept in RegNum already encoded.
encodeOperand(Opnd, WantedRegSet) ==
  CASE Opnd.kind = "Variable" ->
         IF Opnd.hasReg THEN Encoded("EncodedAsRegister", ToW(Opnd.RegNum))
         ELSE Encoded("CantEncode", ZeroW)
    [] Opnd.kind = "FlexImm" ->
         IF ~(Opnd.RotateAmt < 2 ^ kRotateBits /\ Opnd.Imm < 2 ^ kImmed8Bits)
         THEN Encoded("CantEncode", ZeroW)
         ELSE Encoded("EncodedAsRotatedImm8",
                      OrW(Shl(Opnd.RotateAmt, kRotateShift), Shl(Opnd.Imm, kImmed8Shift)))
    [] Opnd.kind = "ConstantInteger32" ->
         Encoded("EncodedAsConstI32", Opnd.Value)
    [] Opnd.kind = "FlexReg" ->
         LET Amt == Opnd.ShiftAmt
             RmOp == Opnd.Reg
         IN IF ~(RmOp.kind = "Variable" /\ RmOp.hasReg) THEN Encoded("CantEncode", ZeroW)
            ELSE IF Amt.kind = "Variable"
            THEN IF ~Amt.hasReg THEN Encoded("CantEncode", ZeroW)
                 ELSE Encoded("EncodedAsRegShiftReg",
                              encodeShiftRotateReg(RmOp.RegNum, Opnd.ShiftOp, Amt.RegNum))
            ELSE IF Amt.kind = "ShAmtImm"
            THEN LET r == encodeShiftRotateImm5(RmOp.RegNum, Opnd.ShiftOp, Amt.ShAmtImm)
                 IN IF IsOk(r) THEN Encoded("EncodedAsShiftedRegister", r.value)
                    ELSE EncFatal(r.fatal)
            ELSE IF Amt.kind = "ConstantInteger32"
            THEN IF Amt.Value.hi >= 128 THEN Encoded("CantEncode", ZeroW)
                 ELSE LET Imm5 == Amt.Value.hi * (2 ^ 24) + Amt.Value.lo
                          r == encodeShiftRotateImm5(RmOp.RegNum, Opnd.ShiftOp, Imm5)
                      IN IF IsOk(r) THEN Encoded("EncodedAsShiftedRegister", r.value)
                         ELSE EncFatal(r.fatal)
            ELSE Encoded("CantEncode", ZeroW)
    [] Opnd.kind = "ShAmtImm" ->
         IF ~(Opnd.ShAmtImm < 2 ^ kShiftImmBits)
         THEN EncFatal("assert: Immed5 < (1 << kShiftImmBits)")
         ELSE Encoded("EncodedAsShiftImm5", Shl(Opnd.ShAmtImm, kShiftImmShift))
    [] OTHER -> Encoded("CantEncode", ZeroW)

\* encodeRegister / encodeGPRegister: the register number, or fatal.
encodeGPRegister(OpReg, RegName, InstName) ==
  LET e == encodeOperand(OpReg, "WantGPRegs")
  IN IF e.fatal # NoError THEN Err(e.fatal)
     ELSE IF e.enc # "EncodedAsRegister"
     THEN Err(InstName \o ": Can't find register " \o RegName)
     ELSE Ok(e.value)

(***************************************************************************)
(* Legality checks.  They are skipped in a minimal build.                  *)
(***************************************************************************)
BuildDefs_minimal == FALSE

\* verifyRegNotPcWhenSetFlags: TRUE when the check reports a fatal error.
verifyRegNotPcWhenSetFlags(RegNum, SetFlags) ==
  IF BuildDefs_minimal THEN FALSE
  ELSE SetFlags /\ RegNum = Encoded_Reg_pc

\* verifyRegsNotEq: TRUE when the check reports a fatal error.
verifyRegsNotEq(Reg1, Reg2) ==
  IF BuildDefs_minimal THEN FALSE
  ELSE Reg1 = Reg2

(***************************************************************************)
(* OperandARM32FlexImm::canHoldImm: the first rotation Rot in 0..15 such   *)
(* that Immediate rotated left by 2*Rot fits in 8 bits.                    *)
(***************************************************************************)
FitsImm8(w) == w.hi = 0 /\ w.lo <= 255

canHoldImm(Immediate) ==
  LET Rots == {r \in 0 .. 15 : FitsImm8(RotL(Immediate, 2 * r))}
  IN IF Rots = {} THEN [holds |-> FALSE, RotateAmt |-> 0, Imm8 |-> 0]
     ELSE LET Rot == CHOOSE r \in Rots : \A q \in Rots : r <= q
          IN [holds |-> TRUE, RotateAmt |-> Rot,
              Imm8 |-> RotL(Immediate, 2 * Rot).lo]

(***************************************************************************)
(* Data-processing instructions (types 0 and 1).                           *)
(***************************************************************************)
\* Variant of emitType01 that never applies the rule check.
emitType01Enc_noRuleCheck(Cond, InstType, Opcode, SetFlags, Rn, Rd, Imm12, RuleChecks, InstName) ==
  IF ~(Rd < getNumGPRegs) THEN Err("assert: Rd < RegARM32::getNumGPRegs()")
  ELSE IF ~isDefined(Cond) THEN Err("assert: isDefined(Cond)")
  ELSE Ok(OrW(OrW(OrW(Shl(encodeCondition(Cond), kConditionShift),
                      Shl(InstType, kTypeShift)),
                  OrW(Shl(Opcode, kOpcodeShift), Shl(encodeBool(SetFlags), kSShift))),
              OrW(OrW(Shl(Rn, kRnShift), Shl(Rd, kRdShift)), Imm12)))

\* emitType01(Cond, InstType, Opcode, SetFlags, Rn, Rd, Imm12, RuleChecks,
\* InstName): the word to be emitted, or the fatal error.
emitType01Enc(Cond, InstType, Opcode, SetFlags, Rn, Rd, Imm12, RuleChecks, InstName) ==
  IF RuleChecks = "RdIsPcAndSetFlags" /\ verifyRegNotPcWhenSetFlags(Rd, SetFlags)
  THEN Err(InstName \o ": pc=pc not allowed when CC=1")
  ELSE IF ~(Rd < getNumGPRegs) THEN Err("assert: Rd < RegARM32::getNumGPRegs()")
  ELSE IF ~isDefined(Cond) THEN Err("assert: isDefined(Cond)")
  ELSE Ok(OrW(OrW(OrW(Shl(encodeCondition(Cond), kConditionShift),
                      Shl(InstType, kTypeShift)),
                  OrW(Shl(Opcode, kOpcodeShift), Shl(encodeBool(SetFlags), kSShift))),
              OrW(OrW(Shl(Rn, kRnShift), Shl(Rd, kRdShift)), Imm12)))

\* Variant of emitType01 that emits the low 12 bits of a constant that has
\* no rotated 8-bit form.
emitType01_truncImm(Cond, Opcode, Rd, Rn, OpSrc1, SetFlags, RuleChecks, InstName) ==
  LET Src1 == encodeOperand(OpSrc1, "WantGPRegs")
  IN CASE Src1.fatal # NoError -> Err(Src1.fatal)
       [] Src1.fatal = NoError /\ Src1.enc = "EncodedAsRegister" ->
            LET r == encodeShiftRotateImm5(Src1.value.lo, "kNoShift", 0)
            IN emitType01Enc(Cond, kInstTypeDataRegister, Opcode, SetFlags, Rn, Rd,
                             r.value, RuleChecks, InstName)
       [] Src1.fatal = NoError /\ Src1.enc = "EncodedAsShiftedRegister" ->
            emitType01Enc(Cond, kInstTypeDataRegister, Opcode, SetFlags, Rn, Rd,
                          Src1.value, RuleChecks, InstName)
       [] Src1.fatal = NoError /\ Src1.enc = "EncodedAsConstI32" ->
            LET h == canHoldImm(Src1.value)
                r == IF h.holds THEN encodeRotatedImm8(h.RotateAmt, h.Imm8)
                     ELSE Ok(ToW(Src1.value.lo % 4096))
            IN IF ~IsOk(r) THEN r
               ELSE emitType01Enc(Cond, kInstTypeDataImmediate, Opcode, SetFlags,
                                  Rn, Rd, r.value, RuleChecks, InstName)
       [] Src1.fatal = NoError /\ Src1.enc = "EncodedAsRotatedImm8" ->
            emitType01Enc(Cond, kInstTypeDataImmediate, Opcode, SetFlags, Rn, Rd,
                          Src1.value, RuleChecks, InstName)
       [] Src1.fatal = NoError /\ Src1.enc = "EncodedAsRegShiftReg" ->
            emitType01Enc(Cond, kInstTypeDataRegShift, Opcode, SetFlags, Rn, Rd,
                          Src1.value, RuleChecks, InstName)
       [] OTHER -> Err(InstName \o ": Can't encode instruction")

\* Variant of emitType01 that gives the register-shifted-register form the
\* type of the register-offset memory forms (011).
emitType01_regShiftType(Cond, Opcode, Rd, Rn, OpSrc1, SetFlags, RuleChecks, InstName) ==
  LET Src1 == encodeOperand(OpSrc1, "WantGPRegs")
  IN CASE Src1.fatal # NoError -> Err(Src1.fatal)
       [] Src1.fatal = NoError /\ Src1.enc = "EncodedAsRegister" ->
            LET r == encodeShiftRotateImm5(Src1.value.lo, "kNoShift", 0)
            IN emitType01Enc(Cond, kInstTypeDataRegister, Opcode, SetFlags, Rn, Rd,
                             r.value, RuleChecks, InstName)
       [] Src1.fatal = NoError /\ Src1.enc = "EncodedAsShiftedRegister" ->
            emitType01Enc(Cond, kInstTypeDataRegister, Opcode, SetFlags, Rn, Rd,
                          Src1.value, RuleChecks, InstName)
       [] Src1.fatal = NoError /\ Src1.enc = "EncodedAsConstI32" ->
            LET h == canHoldImm(Src1.value)
            IN IF ~h.holds
               THEN Err(InstName \o ": Immediate rotated constant not valid")
               ELSE LET r == encodeRotatedImm8(h.RotateAmt, h.Imm8)
                    IN IF ~IsOk(r) THEN r
                       ELSE emitType01Enc(Cond, kInstTypeDataImmediate, Opcode, SetFlags,
                                          Rn, Rd, r.value, RuleChecks, InstName)
       [] Src1.fatal = NoError /\ Src1.enc = "EncodedAsRotatedImm8" ->
            emitType01Enc(Cond, kInstTypeDataImmediate, Opcode, SetFlags, Rn, Rd,
                          Src1.value, RuleChecks, InstName)
       [] Src1.fatal = NoError /\ Src1.enc = "EncodedAsRegShiftReg" ->
            emitType01Enc(Cond, kInstTypeRegisterShift, Opcode, SetFlags, Rn, Rd,
                          Src1.value, RuleChecks, InstName)
       [] OTHER -> Err(InstName \o ": Can't encode instruction")

\* emitType01(Cond, Opcode, Rd, Rn, OpSrc1, SetFlags, RuleChecks, InstName):
\* the instruction form is chosen by the encoding of the flexible operand.
emitType01(Cond, Opcode, Rd, Rn, OpSrc1, SetFlags, RuleChecks, InstName) ==
  LET Src1 == encodeOperand(OpSrc1, "WantGPRegs")
  IN CASE Src1.fatal # NoError -> Err(Src1.fatal)
       [] Src1.fatal = NoError /\ Src1.enc = "EncodedAsRegister" ->
            LET r == encodeShiftRotateImm5(Src1.value.lo, "kNoShift", 0)
            IN emitType01Enc(Cond, kInstTypeDataRegister, Opcode, SetFlags, Rn, Rd,
                             r.value, RuleChecks, InstName)
       [] Src1.fatal = NoError /\ Src1.enc = "EncodedAsShiftedRegister" ->
            emitType01Enc(Cond, kInstTypeDataRegister, Opcode, SetFlags, Rn, Rd,
                          Src1.value, RuleChecks, InstName)
       [] Src1.fatal = NoError /\ Src1.enc = "EncodedAsConstI32" ->
            LET h == canHoldImm(Src1.value)
            IN IF ~h.holds
               THEN Err(InstName \o ": Immediate rotated constant not valid")
               ELSE LET r == encodeRotatedImm8(h.RotateAmt, h.Imm8)
                    IN IF ~IsOk(r) THEN r
                       ELSE emitType01Enc(Cond, kInstTypeDataImmediate, Opcode, SetFlags,
                                          Rn, Rd, r.value, RuleChecks, InstName)
       [] Src1.fatal = NoError /\ Src1.enc = "EncodedAsRotatedImm8" ->
            emitType01Enc(Cond, kInstTypeDataImmediate, Opcode, SetFlags, Rn, Rd,
                          Src1.value, RuleChecks, InstName)
       [] Src1.fatal = NoError /\ Src1.enc = "EncodedAsRegShiftReg" ->
            emitType01Enc(Cond, kInstTypeDataRegShift, Opcode, SetFlags, Rn, Rd,
                          Src1.value, RuleChecks, InstName)
       [] OTHER -> Err(InstName \o ": Can't encode instruction")

\* emitType01(Cond, Opcode, OpRd, OpRn, OpSrc1, SetFlags, RuleChecks, InstName)
emitType01Regs(Cond, Opcode, OpRd, OpRn, OpSrc1, SetFlags, RuleChecks, InstName) ==
  LET Rd == encodeGPRegister(OpRd, "Rd", InstName)
      Rn == encodeGPRegister(OpRn, "Rn", InstName)
  IN IF ~IsOk(Rd) THEN Rd
     ELSE IF ~IsOk(Rn) THEN Rn
     ELSE emitType01(Cond, Opcode, Rd.value.lo, Rn.value.lo, OpSrc1, SetFlags,
                     RuleChecks, InstName)

\* Opcodes of the data-processing instructions.
AndOpcode == 0
EorOpcode == 1
SubOpcode == 2
RsbOpcode == 3
AddOpcode == 4
AdcOpcode == 5
SbcOpcode == 6
RscOpcode == 7
OrrOpcode == 12
MovOpcode == 13
BicOpcode == 14

\* The effect of one emission request: the word is appended, or code
\* generation ends with the fatal error and nothing is appended.
Emit(r, op) ==
  /\ Fatal = NoError
  /\ BufferSize(Buffer) < MaxWords * kWordSize
  /\ lastOp' = op
  /\ IF IsOk(r)
     THEN /\ Buffer' = emitInst(Buffer, r.value)
          /\ UNCHANGED Fatal
     ELSE /\ Fatal' = r.fatal
          /\ UNCHANGED Buffer
  /\ UNCHANGED <<Labels, Fixups, fwdRefs>>

DataOp(name, OpRd, OpRn, OpSrc1, SetFlags, Cond) ==
  [name |-> name, Rd |-> OpRd, Rn |-> OpRn, Src |-> OpSrc1, SetFlags |-> SetFlags,
   Cond |-> Cond, size |-> BufferSize(Buffer)]

adc(OpRd, OpRn, OpSrc1, SetFlags, Cond) ==
  Emit(emitType01Regs(Cond, AdcOpcode, OpRd, OpRn, OpSrc1, SetFlags,
                      "RdIsPcAndSetFlags", "adc"),
       DataOp("adc", OpRd, OpRn, OpSrc1, SetFlags, Cond))

add(OpRd, OpRn, OpSrc1, SetFlags, Cond) ==
  Emit(emitType01Regs(Cond, AddOpcode, OpRd, OpRn, OpSrc1, SetFlags,
                      "RdIsPcAndSetFlags", "add"),
       DataOp("add", OpRd, OpRn, OpSrc1, SetFlags, Cond))

and_(OpRd, OpRn, OpSrc1, SetFlags, Cond) ==
  Emit(emitType01Regs(Cond, AndOpcode, OpRd, OpRn, OpSrc1, SetFlags,
                      "RdIsPcAndSetFlags", "and"),
       DataOp("and", OpRd, OpRn, OpSrc1, SetFlags, Cond))

bic(OpRd, OpRn, OpSrc1, SetFlags, Cond) ==
  Emit(emitType01Regs(Cond, BicOpcode, OpRd, OpRn, OpSrc1, SetFlags,
                      "RdIsPcAndSetFlags", "bic"),
       DataOp("bic", OpRd, OpRn, OpSrc1, SetFlags, Cond))

eor(OpRd, OpRn, OpSrc1, SetFlags, Cond) ==
  Emit(emitType01Regs(Cond, EorOpcode, OpRd, OpRn, OpSrc1, SetFlags,
                      "RdIsPcAndSetFlags", "eor"),
       DataOp("eor", OpRd, OpRn, OpSrc1, SetFlags, Cond))

orr(OpRd, OpRn, OpSrc1, SetFlags, Cond) ==
  Emit(emitType01Regs(Cond, OrrOpcode, OpRd, OpRn, OpSrc1, SetFlags,
                      "RdIsPcAndSetFlags", "orr"),
       DataOp("orr", OpRd, OpRn, OpSrc1, SetFlags, Cond))

rsb(OpRd, OpRn, OpSrc1, SetFlags, Cond) ==
  Emit(emitType01Regs(Cond, RsbOpcode, OpRd, OpRn, OpSrc1, SetFlags,
                      "RdIsPcAndSetFlags", "rsb"),
       DataOp("rsb", OpRd, OpRn, OpSrc1, SetFlags, Cond))

rsc(OpRd, OpRn, OpSrc1, SetFlags, Cond) ==
  Emit(emitType01Regs(Cond, RscOpcode, OpRd, OpRn, OpSrc1, SetFlags,
                      "RdIsPcAndSetFlags", "rsc"),
       DataOp("rsc", OpRd, OpRn, OpSrc1, SetFlags, Cond))

sbc(OpRd, OpRn, OpSrc1, SetFlags, Cond) ==
  Emit(emitType01Regs(Cond, SbcOpcode, OpRd, OpRn, OpSrc1, SetFlags,
                      "RdIsPcAndSetFlags", "sbc"),
       DataOp("sbc", OpRd, OpRn, OpSrc1, SetFlags, Cond))

sub(OpRd, OpRn, OpSrc1, SetFlags, Cond) ==
  Emit(emitType01Regs(Cond, SubOpcode, OpRd, OpRn, OpSrc1, SetFlags,
                      "RdIsPcAndSetFlags", "sub"),
       DataOp("sub", OpRd, OpRn, OpSrc1, SetFlags, Cond))

\* Variant of mov that sets the S bit.
movEnc_setFlags(OpRd, OpSrc, Cond) ==
  LET Rd == encodeGPRegister(OpRd, "Rd", "mov")
  IN IF ~IsOk(Rd) THEN Rd
     ELSE emitType01(Cond, MovOpcode, Rd.value.lo, 0, OpSrc, TRUE,
                     "RdIsPcAndSetFlags", "mov")

\* AssemblerARM32::mov(OpRd, OpSrc, Cond): SetFlags = false, Rn = 0.
movEnc(OpRd, OpSrc, Cond) ==
  LET Rd == encodeGPRegister(OpRd, "Rd", "mov")
  IN IF ~IsOk(Rd) THEN Rd
     ELSE emitType01(Cond, MovOpcode, Rd.value.lo, 0, OpSrc, FALSE,
                     "RdIsPcAndSetFlags", "mov")

mov(OpRd, OpSrc, Cond) ==
  Emit(movEnc(OpRd, OpSrc, Cond),
       [name |-> "mov", Rd |-> OpRd, Src |-> OpSrc, Cond |-> Cond,
        size |-> BufferSize(Buffer)])

\* Variant of createMoveFixup that gives every record the lower-16 kind.
createMoveFixup_lowerOnly(fixups, IsMovW, Value, Position) ==
  createFixup(fixups, R_ARM_MOVW_ABS_NC, Value, Position)

\* emitFixup(createMoveFixup(IsMovW, Value)): the record is installed with
\* the current buffer size as its position.
createMoveFixup(fixups, IsMovW, Value, Position) ==
  createFixup(fixups, IF IsMovW THEN R_ARM_MOVW_ABS_NC ELSE R_ARM_MOVT_ABS, Value, Position)

\* The word emitMovwt builds for the 16-bit immediate Imm16 (a 32-bit value).
emitMovwtEnc(Cond, IsMovW, Rd, Imm16, MovName) ==
  IF ~isDefined(Cond) THEN Err("assert: isDefined(Cond)")
  ELSE IF ~(Imm16.hi = 0 /\ IsAbsoluteUint(16, Imm16.lo))
  THEN Err(MovName \o ": Constant not i16")
  ELSE Ok(OrW(OrW(Shl(encodeCondition(Cond), kConditionShift),
                  OrW(OrW(Bit(25), Bit(24)), IF IsMovW THEN ZeroW ELSE Bit(22))),
              OrW(OrW(Shl(Imm16.lo \div (2 ^ 12), 16), Shl(Rd, kRdShift)),
                  ToW(Imm16.lo % (2 ^ 12)))))

\* AssemblerARM32::emitMovwt(Cond, IsMovW, OpRd, OpSrc, MovName): a
\* relocatable source installs its fixup before the word is built.
emitMovwt(Cond, IsMovW, OpRd, OpSrc, MovName) ==
  /\ Fatal = NoError
  /\ BufferSize(Buffer) < MaxWords * kWordSize
  /\ lastOp' = [name |-> MovName, Rd |-> OpRd, Src |-> OpSrc, Cond |-> Cond,
                size |-> BufferSize(Buffer), fixups |-> Len(Fixups)]
  /\ \E Rd \in {encodeGPRegister(OpRd, "Rd", MovName)} :
       IF ~IsOk(Rd)
       THEN /\ Fatal' = Rd.fatal
            /\ UNCHANGED <<Buffer, Fixups>>
       ELSE \E Src \in {encodeOperand(OpSrc, "WantGPRegs")} :
              IF OpSrc.kind # "ConstantRelocatable" /\ Src.enc # "EncodedAsConstI32"
              THEN /\ Fatal' = MovName \o ": Not i32 constant"
                   /\ UNCHANGED <<Buffer, Fixups>>
              ELSE \E Enc \in {emitMovwtEnc(Cond, IsMovW, Rd.value.lo,
                                            IF OpSrc.kind = "ConstantRelocatable"
                                            THEN ZeroW ELSE Src.value, MovName)} :
                     /\ Fixups' = IF OpSrc.kind = "ConstantRelocatable"
                                  THEN createMoveFixup(Fixups, IsMovW, OpSrc.Name,
                                                       BufferSize(Buffer))
                                  ELSE Fixups
                     /\ IF IsOk(Enc)
                        THEN /\ Buffer' = emitInst(Buffer, Enc.value)
                             /\ UNCHANGED Fatal
                        ELSE /\ Fatal' = Enc.fatal
                             /\ UNCHANGED Buffer
  /\ UNCHANGED <<Labels, fwdRefs>>

\* AssemblerARM32::movw and AssemblerARM32::movt
movw(OpRd, OpSrc, Cond) == emitMovwt(Cond, TRUE, OpRd, OpSrc, "movw")

movt(OpRd, OpSrc, Cond) == emitMovwt(Cond, FALSE, OpRd, OpSrc, "movt")

(***************************************************************************)
(* Memory operands and single-register pop.                                *)
(***************************************************************************)
\* OperandARM32Mem::AddrMode: the P, U and W bits of the addressing mode.
AddrOffset == OrW(P, U)
AddrPreIndex == OrW(OrW(P, U), W)
AddrPostIndex == U

\* encodeImmRegOffset(Reg, Offset, Mode, MaxOffset, OffsetShift)
encodeImmRegOffset(RegNum, Offset, Mode, MaxOffset, OffsetShift) ==
  LET Value0 == OrW(Mode, Shl(RegNum, kRnShift))
      Abs == IF Offset < 0 THEN -Offset ELSE Offset
      Value == IF Offset < 0 THEN XorW(Value0, U) ELSE Value0
  IN IF ~(Abs <= MaxOffset) THEN Err("assert: Offset <= MaxOffset")
     ELSE Ok(OrW(Value, ToW(Abs \div (2 ^ OffsetShift))))

\* emitMemOp(Cond, InstType, IsLoad, IsByte, Rt, Address)
emitMemOpEnc(Cond, InstType, IsLoad, IsByte, Rt, Address) ==
  IF ~(Rt < getNumGPRegs) THEN Err("assert: Rt < RegARM32::getNumGPRegs()")
  ELSE IF ~isDefined(Cond) THEN Err("assert: isDefined(Cond)")
  ELSE Ok(OrW(OrW(OrW(Shl(encodeCondition(Cond), kConditionShift),
                      Shl(InstType, kTypeShift)),
                  OrW(IF IsLoad THEN L ELSE ZeroW, IF IsByte THEN B ELSE ZeroW)),
              OrW(Shl(Rt, kRdShift), Address)))

\* Variant of pop that uses the pre-indexed addressing mode of push.
popEnc_preIndex(OpRt, Cond) ==
  LET Rt == encodeGPRegister(OpRt, "Rt", "pop")
  IN IF ~IsOk(Rt) THEN Rt
     ELSE IF verifyRegsNotEq(Rt.value.lo, Encoded_Reg_sp)
     THEN Err("pop: Rt=sp not allowed")
     ELSE LET Address == encodeImmRegOffset(Encoded_Reg_sp, kWordSize, AddrPreIndex,
                                            2 ^ 8 - 1, 0)
          IN IF ~IsOk(Address) THEN Address
             ELSE emitMemOpEnc(Cond, kInstTypeMemImmediate, TRUE, FALSE,
                               Rt.value.lo, Address.value)

\* AssemblerARM32::pop(OpRt, Cond)
popEnc(OpRt, Cond) ==
  LET Rt == encodeGPRegister(OpRt, "Rt", "pop")
  IN IF ~IsOk(Rt) THEN Rt
     ELSE IF verifyRegsNotEq(Rt.value.lo, Encoded_Reg_sp)
     THEN Err("pop: Rt=sp not allowed")
     ELSE LET Address == encodeImmRegOffset(Encoded_Reg_sp, kWordSize, AddrPostIndex,
                                            2 ^ 8 - 1, 0)
          IN IF ~IsOk(Address) THEN Address
             ELSE emitMemOpEnc(Cond, kInstTypeMemImmediate, TRUE, FALSE,
                               Rt.value.lo, Address.value)

pop(OpRt, Cond) ==
  Emit(popEnc(OpRt, Cond),
       [name |-> "pop", Rt |-> OpRt, Cond |-> Cond, size |-> BufferSize(Buffer)])

(***************************************************************************)
(* Loads and stores: address encoding, legality rules and emission.        *)
(***************************************************************************)
\* The remaining addressing modes (bit encoding P U 0 W).
AddrNegOffset == P
AddrNegPreIndex == OrW(P, W)
AddrNegPostIndex == ZeroW

kImmed12Bits == 12
kImm12Shift == 0

\* OperandARM32Mem with an immediate offset, and with an index register.
MemImm(base, off, mode) == [kind |-> "Mem", Base |-> base, isRegReg |-> FALSE, Offset |-> off, AddrMode |-> mode]
MemReg(base, index, op, amt, mode) == [kind |-> "Mem", Base |-> base, isRegReg |-> TRUE, Index |-> index, ShiftOp |-> op, ShiftAmt |-> amt, AddrMode |-> mode]

\* mask(Value, Shift, Bits) and getGPRReg(Shift, Value), for fields that lie
\* in bits 0..23.
mask(Value, Shift, Bits) == (Value.lo \div (2 ^ Shift)) % (2 ^ Bits)
getGPRReg(Shift, Value) == (Value.lo \div (2 ^ Shift)) % 16

\* Variant of encodeImmRegOffsetEnc3 without the range check on Imm8.
encodeImmRegOffsetEnc3_unchecked(Rn, Imm8, Mode) ==
  LET Value0 == OrW(Mode, Shl(Rn, kRnShift))
      Abs == IF Imm8 < 0 THEN -Imm8 ELSE Imm8
      Value == IF Imm8 < 0 THEN XorW(Value0, U) ELSE Value0
  IN Ok(OrW(OrW(Value, Bit(22)),
            OrW(Shl(BitAnd(Abs, 240), 4), ToW(BitAnd(Abs, 15)))))

\* encodeImmRegOffsetEnc3(Rn, Imm8, Mode)
encodeImmRegOffsetEnc3(Rn, Imm8, Mode) ==
  LET Value0 == OrW(Mode, Shl(Rn, kRnShift))
      Abs == IF Imm8 < 0 THEN -Imm8 ELSE Imm8
      Value == IF Imm8 < 0 THEN XorW(Value0, U) ELSE Value0
  IN IF ~(Abs < 2 ^ 8) THEN Err("assert: Imm8 < (1 << 8)")
     ELSE Ok(OrW(OrW(Value, Bit(22)),
                 OrW(Shl(BitAnd(Abs, 240), 4), ToW(BitAnd(Abs, 15)))))

\* encodeImmRegOffset(ImmEncoding, Reg, Offset, Mode)
encodeImmRegOffsetFor(ImmEncoding, RegNum, Offset, Mode) ==
  CASE ImmEncoding = "RotatedImm8Address" ->
         encodeImmRegOffset(RegNum, Offset, Mode, 2 ^ 8 - 1, 0)
    [] ImmEncoding = "RotatedImm8Div4Address" ->
         IF Offset % 4 # 0 THEN Err("assert: (Offset & 0x3) == 0")
         ELSE encodeImmRegOffset(RegNum, Offset, Mode, 2 ^ 8 - 1, 2)
    [] ImmEncoding = "Imm12Address" ->
         encodeImmRegOffset(RegNum, Offset, Mode, 2 ^ 12 - 1, 0)
    [] ImmEncoding = "RotatedImm8Enc3Address" ->
         encodeImmRegOffsetEnc3(RegNum, Offset, Mode)
    [] ImmEncoding = "NoImmOffsetAddress" ->
         IF Offset # 0 THEN Err("assert: Offset == 0")
         ELSE IF Mode # AddrOffset THEN Err("assert: Mode == OperandARM32Mem::Offset")
         ELSE Ok(Shl(RegNum, kRnShift))

\* AssemblerARM32::TargetInfo of a function without a frame pointer.
TInfoSp == [HasFramePointer |-> FALSE, FrameOrStackReg |-> Encoded_Reg_sp]

\* encodeAddress(Opnd, Value, TInfo, ImmEncoding)
encodeAddress(Opnd, TInfo, ImmEncoding) ==
  CASE Opnd.kind = "Variable" ->
         IF Opnd.hasReg THEN Encoded("CantEncode", ZeroW)
         ELSE IF ~IsAbsoluteUint(12, Opnd.StackOffset) THEN Encoded("CantEncode", ZeroW)
         ELSE LET r == encodeImmRegOffsetFor(ImmEncoding, TInfo.FrameOrStackReg,
                                             Opnd.StackOffset, AddrOffset)
              IN IF IsOk(r) THEN Encoded("EncodedAsImmRegOffset", r.value)
                 ELSE EncFatal(r.fatal)
    [] Opnd.kind = "Mem" ->
         IF ~Opnd.Base.hasReg THEN Encoded("CantEncode", ZeroW)
         ELSE LET Rn == Opnd.Base.RegNum
              IN IF Opnd.isRegReg
                 THEN IF ~Opnd.Index.hasReg THEN EncFatal("assert: Var->hasReg()")
                      ELSE LET r == encodeShiftRotateImm5(Opnd.Index.RegNum, Opnd.ShiftOp,
                                                          Opnd.ShiftAmt)
                           IN IF ~IsOk(r) THEN EncFatal(r.fatal)
                              ELSE Encoded("EncodedAsShiftRotateImm5",
                                           OrW(OrW(Shl(Rn, kRnShift), Opnd.AddrMode),
                                               r.value))
                 ELSE LET r == encodeImmRegOffsetFor(ImmEncoding, Rn, Opnd.Offset,
                                                     Opnd.AddrMode)
                      IN IF IsOk(r) THEN Encoded("EncodedAsImmRegOffset", r.value)
                         ELSE EncFatal(r.fatal)
    [] OTHER -> Encoded("CantEncode", ZeroW)

\* Variant of verifyPOrNotW with the two bit tests exchanged.
verifyPOrNotW_swapped(Address) ==
  IF BuildDefs_minimal THEN FALSE
  ELSE isBitSet(P, Address) /\ ~isBitSet(W, Address)

\* verifyPOrNotW, verifyRegNotPc and verifyAddrRegNotPc: TRUE when the check
\* reports a fatal error.
verifyPOrNotW(Address) ==
  IF BuildDefs_minimal THEN FALSE
  ELSE ~isBitSet(P, Address) /\ isBitSet(W, Address)

verifyRegNotPc(RegNum) == verifyRegsNotEq(RegNum, Encoded_Reg_pc)

verifyAddrRegNotPc(RegShift, Address) ==
  IF BuildDefs_minimal THEN FALSE
  ELSE getGPRReg(RegShift, Address) = Encoded_Reg_pc

\* Variant of emitMemOp whose writeback rule compares the base register with
\* the index register instead of the transfer register.
emitMemOp_baseVsIndex(Cond, IsLoad, IsByte, Rt, OpAddress, TInfo, InstName) ==
  LET Checked(A) ==
        LET Address == A.value
            Rn == getGPRReg(kRnShift, Address)
            Rm == getGPRReg(kRmShift, Address)
        IN CASE A.fatal # NoError -> Err(A.fatal)
             [] A.fatal = NoError /\ A.enc = "EncodedAsImmRegOffset" ->
                  IF verifyRegNotPc(Rn) THEN Err(InstName \o ": Rn=pc not allowed")
                  ELSE IF verifyPOrNotW(Address)
                  THEN Err(InstName \o ": P=0 when W=1 not allowed")
                  ELSE IF /\ ~IsByte
                          /\ Rn = Encoded_Reg_sp
                          /\ ~isBitSet(P, Address)
                          /\ isBitSet(U, Address)
                          /\ ~isBitSet(W, Address)
                          /\ mask(Address, kImm12Shift, kImmed12Bits) = 8
                  THEN Err(InstName \o ": Use push/pop instead")
                  ELSE emitMemOpEnc(Cond, kInstTypeMemImmediate, IsLoad, IsByte, Rt, Address)
             [] A.fatal = NoError /\ A.enc = "EncodedAsShiftRotateImm5" ->
                  IF verifyPOrNotW(Address)
                  THEN Err(InstName \o ": P=0 when W=1 not allowed")
                  ELSE IF verifyRegNotPc(Rm) THEN Err(InstName \o ": Rm=pc not allowed")
                  ELSE IF IsByte /\ verifyRegNotPc(Rt) THEN Err(InstName \o ": Rt=pc not allowed")
                  ELSE IF isBitSet(W, Address) /\ verifyRegNotPc(Rn)
                  THEN Err(InstName \o ": Rn=pc not allowed")
                  ELSE IF isBitSet(W, Address) /\ verifyRegsNotEq(Rn, Rm)
                  THEN Err(InstName \o ": Rn=Rm not allowed")
                  ELSE emitMemOpEnc(Cond, kInstTypeRegisterShift, IsLoad, IsByte, Rt, Address)
             [] OTHER -> Err(InstName \o ": Memory address not understood")
  IN CHOOSE r \in {Checked(A) : A \in {encodeAddress(OpAddress, TInfo, "Imm12Address")}} : TRUE

\* emitMemOp(Cond, IsLoad, IsByte, Rt, OpAddress, TInfo, InstName). The address
\* is encoded once into the local A, which the checks and the encoding read.
emitMemOp(Cond, IsLoad, IsByte, Rt, OpAddress, TInfo, InstName) ==
  LET Checked(A) ==
        LET Address == A.value
            Rn == getGPRReg(kRnShift, Address)
            Rm == getGPRReg(kRmShift, Address)
        IN CASE A.fatal # NoError -> Err(A.fatal)
             [] A.fatal = NoError /\ A.enc = "EncodedAsImmRegOffset" ->
                  IF verifyRegNotPc(Rn) THEN Err(InstName \o ": Rn=pc not allowed")
                  ELSE IF verifyPOrNotW(Address)
                  THEN Err(InstName \o ": P=0 when W=1 not allowed")
                  ELSE IF /\ ~IsByte
                          /\ Rn = Encoded_Reg_sp
                          /\ ~isBitSet(P, Address)
                          /\ isBitSet(U, Address)
                          /\ ~isBitSet(W, Address)
                          /\ mask(Address, kImm12Shift, kImmed12Bits) = 8
                  THEN Err(InstName \o ": Use push/pop instead")
                  ELSE emitMemOpEnc(Cond, kInstTypeMemImmediate, IsLoad, IsByte, Rt, Address)
             [] A.fatal = NoError /\ A.enc = "EncodedAsShiftRotateImm5" ->
                  IF verifyPOrNotW(Address)
                  THEN Err(InstName \o ": P=0 when W=1 not allowed")
                  ELSE IF verifyRegNotPc(Rm) THEN Err(InstName \o ": Rm=pc not allowed")
                  ELSE IF IsByte /\ verifyRegNotPc(Rt) THEN Err(InstName \o ": Rt=pc not allowed")
                  ELSE IF isBitSet(W, Address) /\ verifyRegNotPc(Rn)
                  THEN Err(InstName \o ": Rn=pc not allowed")
                  ELSE IF isBitSet(W, Address) /\ verifyRegsNotEq(Rn, Rt)
                  THEN Err(InstName \o ": Rn=Rt not allowed")
                  ELSE emitMemOpEnc(Cond, kInstTypeRegisterShift, IsLoad, IsByte, Rt, Address)
             [] OTHER -> Err(InstName \o ": Memory address not understood")
  IN CHOOSE r \in {Checked(A) : A \in {encodeAddress(OpAddress, TInfo, "Imm12Address")}} : TRUE

\* emitMemOpEnc3(Cond, Opcode, Rt, OpAddress, TInfo, InstName)
emitMemOpEnc3(Cond, Opcode, Rt, OpAddress, TInfo, InstName) ==
  LET Checked(A) ==
        LET Address == A.value
            Rn == getGPRReg(kRnShift, Address)
            Encoding == OrW(OrW(Shl(encodeCondition(Cond), kConditionShift), Opcode),
                            OrW(Shl(Rt, kRdShift), Address))
        IN CASE A.fatal # NoError -> Err(A.fatal)
             [] A.fatal = NoError /\ A.enc = "EncodedAsImmRegOffset" ->
                  IF ~(Rt < getNumGPRegs) THEN Err("assert: Rt < RegARM32::getNumGPRegs()")
                  ELSE IF ~isDefined(Cond) THEN Err("assert: isDefined(Cond)")
                  ELSE IF verifyPOrNotW(Address)
                  THEN Err(InstName \o ": P=0 when W=1 not allowed")
                  ELSE IF verifyRegNotPc(Rt) THEN Err(InstName \o ": Rt=pc not allowed")
                  ELSE IF isBitSet(W, Address) /\ verifyRegsNotEq(Rn, Rt)
                  THEN Err(InstName \o ": Rn=Rt not allowed")
                  ELSE Ok(Encoding)
             [] A.fatal = NoError /\ A.enc = "EncodedAsShiftRotateImm5" ->
                  IF ~(Rt < getNumGPRegs) THEN Err("assert: Rt < RegARM32::getNumGPRegs()")
                  ELSE IF ~isDefined(Cond) THEN Err("assert: isDefined(Cond)")
                  ELSE IF verifyPOrNotW(Address)
                  THEN Err(InstName \o ": P=0 when W=1 not allowed")
                  ELSE IF verifyRegNotPc(Rt) THEN Err(InstName \o ": Rt=pc not allowed")
                  ELSE IF verifyAddrRegNotPc(kRmShift, Address)
                  THEN Err(InstName \o ": Rm=pc not allowed")
                  ELSE IF isBitSet(W, Address) /\ verifyRegNotPc(Rn)
                  THEN Err(InstName \o ": Rn=pc not allowed")
                  ELSE IF isBitSet(W, Address) /\ verifyRegsNotEq(Rn, Rt)
                  THEN Err(InstName \o ": Rn=Rt not allowed")
                  ELSE IF mask(Address, kShiftImmShift, 5) # 0
                  THEN Err(InstName \o ": Shift constant not allowed")
                  ELSE Ok(Encoding)
             [] OTHER -> Err(InstName \o ": Memory address not understood")
  IN CHOOSE r \in {Checked(A) : A \in {encodeAddress(OpAddress, TInfo, "RotatedImm8Enc3Address")}} : TRUE

\* The encoding made by ldr(OpRt, OpAddress, Cond, TInfo) for a destination of
\* type Ty.
ldrEnc(OpRt, Ty, OpAddress, Cond, TInfo) ==
  LET Rt == encodeGPRegister(OpRt, "Rt", "ldr")
  IN IF ~IsOk(Rt) THEN Rt
     ELSE CASE Ty = "i64" -> Err("ldr : Type i64 not implemented")
            [] Ty \in {"i1", "i8"} ->
                 emitMemOp(Cond, TRUE, TRUE, Rt.value.lo, OpAddress, TInfo, "ldr")
            [] Ty = "i16" ->
                 emitMemOpEnc3(Cond, OrW(OrW(L, Bit(7)), OrW(Bit(5), Bit(4))),
                               Rt.value.lo, OpAddress, TInfo, "ldrh")
            [] Ty = "i32" ->
                 emitMemOp(Cond, TRUE, FALSE, Rt.value.lo, OpAddress, TInfo, "ldr")
            [] OTHER -> Err("ldr : Type " \o Ty \o " not allowed")

\* The encoding made by str(OpRt, OpAddress, Cond, TInfo) for a source of
\* type Ty.
strEnc(OpRt, Ty, OpAddress, Cond, TInfo) ==
  LET Rt == encodeGPRegister(OpRt, "Rt", "str")
  IN IF ~IsOk(Rt) THEN Rt
     ELSE CASE Ty = "i64" -> Err("str: Type i64 not implemented")
            [] Ty \in {"i1", "i8"} ->
                 emitMemOp(Cond, FALSE, TRUE, Rt.value.lo, OpAddress, TInfo, "str")
            [] Ty = "i16" ->
                 emitMemOpEnc3(Cond, OrW(Bit(7), OrW(Bit(5), Bit(4))),
                               Rt.value.lo, OpAddress, TInfo, "strh")
            [] Ty = "i32" ->
                 emitMemOp(Cond, FALSE, FALSE, Rt.value.lo, OpAddress, TInfo, "str")
            [] OTHER -> Err("str: Type " \o Ty \o " not allowed")

\* The request recorded for a load or store.
MemOp(name, OpRt, Ty, OpAddress, Cond) ==
  [name |-> name, Rt |-> OpRt, Ty |-> Ty, Address |-> OpAddress, Cond |-> Cond,
   size |-> BufferSize(Buffer)]

\* AssemblerARM32::ldr and AssemblerARM32::str
ldr(OpRt, Ty, OpAddress, Cond) ==
  Emit(ldrEnc(OpRt, Ty, OpAddress, Cond, TInfoSp), MemOp("ldr", OpRt, Ty, OpAddress, Cond))

str(OpRt, Ty, OpAddress, Cond) ==
  Emit(strEnc(OpRt, Ty, OpAddress, Cond, TInfoSp), MemOp("str", OpRt, Ty, OpAddress, Cond))

\* encodeDRegister and encodeSRegister: the register number, or fatal.
encodeDRegister(OpReg, RegName, InstName) ==
  LET e == encodeOperand(OpReg, "WantDRegs")
  IN IF e.fatal # NoError THEN Err(e.fatal)
     ELSE IF e.enc # "EncodedAsRegister"
     THEN Err(InstName \o ": Can't find register " \o RegName)
     ELSE Ok(e.value)

encodeSRegister(OpReg, RegName, InstName) ==
  LET e == encodeOperand(OpReg, "WantSRegs")
  IN IF e.fatal # NoError THEN Err(e.fatal)
     ELSE IF e.enc # "EncodedAsRegister"
     THEN Err(InstName \o ": Can't find register " \o RegName)
     ELSE Ok(e.value)

\* Splitting of a 5-bit floating-point register number.
getYInRegXXXXY(RegXXXXY) == RegXXXXY % 2
getXXXXInRegXXXXY(RegXXXXY) == RegXXXXY \div 2
getYInRegYXXXX(RegYXXXX) == RegYXXXX \div 16
getXXXXInRegYXXXX(RegYXXXX) == RegYXXXX % 16

\* The body shared by vldrd, vldrs, vstrd and vstrs: Opcode holds the fixed
\* bits, D and Vd the split register number.
emitVMemOp(Cond, Opcode, D, Vd, OpAddress, TInfo) ==
  IF ~isDefined(Cond) THEN Err("assert: isDefined(Cond)")
  ELSE LET A == encodeAddress(OpAddress, TInfo, "RotatedImm8Div4Address")
       IN IF A.fatal # NoError THEN Err(A.fatal)
          ELSE IF A.enc # "EncodedAsImmRegOffset"
          THEN Err("assert: AddressEncoding == EncodedAsImmRegOffset")
          ELSE Ok(OrW(OrW(Opcode, Shl(encodeCondition(Cond), kConditionShift)),
                      OrW(OrW(Shl(D, 22), Shl(Vd, 12)), A.value)))

\* B27 | B26 | B24 | B11 | B9, the bits common to the four instructions.
VMemBits == OrW(OrW(Bit(27), Bit(26)), OrW(Bit(24), OrW(Bit(11), Bit(9))))

vldrdEnc(OpDd, OpAddress, Cond, TInfo) ==
  LET Dd == encodeDRegister(OpDd, "Dd", "vldrd")
  IN IF ~IsOk(Dd) THEN Dd
     ELSE emitVMemOp(Cond, OrW(VMemBits, OrW(Bit(20), Bit(8))),
                     getYInRegYXXXX(Dd.value.lo), getXXXXInRegYXXXX(Dd.value.lo),
                     OpAddress, TInfo)

vldrsEnc(OpSd, OpAddress, Cond, TInfo) ==
  LET Sd == encodeSRegister(OpSd, "Sd", "vldrs")
  IN IF ~IsOk(Sd) THEN Sd
     ELSE emitVMemOp(Cond, OrW(VMemBits, Bit(20)),
                     getYInRegXXXXY(Sd.value.lo), getXXXXInRegXXXXY(Sd.value.lo),
                     OpAddress, TInfo)

vstrdEnc(OpDd, OpAddress, Cond, TInfo) ==
  LET Dd == encodeDRegister(OpDd, "Dd", "vstrd")
  IN IF ~IsOk(Dd) THEN Dd
     ELSE emitVMemOp(Cond, OrW(VMemBits, Bit(8)),
                     getYInRegYXXXX(Dd.value.lo), getXXXXInRegYXXXX(Dd.value.lo),
                     OpAddress, TInfo)

vstrsEnc(OpSd, OpAddress, Cond, TInfo) ==
  LET Sd == encodeSRegister(OpSd, "Sd", "vstrs")
  IN IF ~IsOk(Sd) THEN Sd
     ELSE emitVMemOp(Cond, VMemBits,
                     getYInRegXXXXY(Sd.value.lo), getXXXXInRegXXXXY(Sd.value.lo),
                     OpAddress, TInfo)

\* The request recorded for a floating-point load or store.
VMemOp(name, OpReg, OpAddress, Cond) ==
  [name |-> name, Rt |-> OpReg, Address |-> OpAddress, Cond |-> Cond,
   size |-> BufferSize(Buffer)]

\* AssemblerARM32::vldrd, vldrs, vstrd and vstrs
vldrd(OpDd, OpAddress, Cond) ==
  Emit(vldrdEnc(OpDd, OpAddress, Cond, TInfoSp), VMemOp("vldrd", OpDd, OpAddress, Cond))

vldrs(OpSd, OpAddress, Cond) ==
  Emit(vldrsEnc(OpSd, OpAddress, Cond, TInfoSp), VMemOp("vldrs", OpSd, OpAddress, Cond))

vstrd(OpDd, OpAddress, Cond) ==
  Emit(vstrdEnc(OpDd, OpAddress, Cond, TInfoSp), VMemOp("vstrd", OpDd, OpAddress, Cond))

vstrs(OpSd, OpAddress, Cond) ==
  Emit(vstrsEnc(OpSd, OpAddress, Cond, TInfoSp), VMemOp("vstrs", OpSd, OpAddress, Cond))

(***************************************************************************)
(* The assembler of one function: labels, branches, padding and calls.     *)
(***************************************************************************)
BranchConds == {CondAL}
Symbols == {"callee"}

\* The null pointer (pointers of the model are object numbers and offsets
\* from 0), the Windows page protections and the free mutex (a held mutex
\* carries the number of its thread, from 1).
nullptr == -1
Uninitialized == "uninitialized"
PAGE_READWRITE == "PAGE_READWRITE"
PAGE_EXECUTE_READWRITE == "PAGE_EXECUTE_READWRITE"
Unlocked == 0
Threads == 1 .. NumThreads

Init ==
  /\ Buffer = << >>
  /\ Labels = [l \in LabelIds |-> 0]
  /\ Fixups = << >>
  /\ Fatal = NoError
  /\ lastOp = [name |-> "init"]
  /\ fwdRefs = [l \in LabelIds |-> {}]
  /\ CfgNodeLabels = << >>
  /\ Allocated = 0
  /\ buffer = << >>
  /\ position = 0
  /\ entry = nullptr
  /\ oldProtection = Uninitialized
  /\ protection = PAGE_READWRITE
  /\ loads = 0
  /\ codegenMutex = Unlocked
  /\ pc = [t \in Threads |-> "idle"]
  /\ context = nullptr
  /\ function = nullptr
  /\ routine = nullptr
  /\ waited = {}

Next ==
  \/ \E l \in LabelIds, c \in BranchConds : b(l, c) /\ AssemblerOnly
  \/ \E l \in LabelIds : bind(l) /\ AssemblerOnly
  \/ nop /\ AssemblerOnly
  \/ \E t \in Symbols : bl(t) /\ AssemblerOnly

Spec == Init /\ [][Next]_vars

(***************************************************************************)
(* Emission of single instructions over a wide range of operands.          *)
(***************************************************************************)
DefinedConds == 0 .. 14
GPRegs == 0 .. 15
DataConds == {CondEQ, CondAL}
DataRds == {Reg(Encoded_Reg_r0), Reg(Encoded_Reg_pc)}
DataRns == {Reg(1)}
\* 0xFF000001, 0xFF000000 and 0xF000000F as 32-bit values.
ConstFF000001 == [hi |-> 255, lo |-> 1]
ConstFF000000 == [hi |-> 255, lo |-> 0]
ConstF000000F == [hi |-> 240, lo |-> 15]
SrcOperands ==
  { Reg(2), FlexImm(5, 0), FlexImm(255, 4),
    Const32(ToW(5)), Const32(ToW(256)), Const32(ToW(257)),
    Const32(ConstFF000001), Const32(ConstFF000000), Const32(ConstF000000F),
    FlexReg(Reg(2), "LSL", ShAmtImm(3)), FlexReg(Reg(2), "LSR", Reg(3)),
    StackVar(0) }

\* A run makes one emission request, on an empty or a padded buffer.
EmitOnce == lastOp.name \in {"init", "padWithNop"}

NextEmit ==
  \/ \E rd \in DataRds, rn \in DataRns, src \in SrcOperands, sf \in BOOLEAN,
        c \in DataConds : EmitOnce /\ adc(rd, rn, src, sf, c) /\ AssemblerOnly
  \/ \E rd \in DataRds, rn \in DataRns, src \in SrcOperands, sf \in BOOLEAN,
        c \in DataConds : EmitOnce /\ add(rd, rn, src, sf, c) /\ AssemblerOnly
  \/ \E rd \in DataRds, rn \in DataRns, src \in SrcOperands, sf \in BOOLEAN,
        c \in DataConds : EmitOnce /\ and_(rd, rn, src, sf, c) /\ AssemblerOnly
  \/ \E rd \in DataRds, rn \in DataRns, src \in SrcOperands, sf \in BOOLEAN,
        c \in DataConds : EmitOnce /\ bic(rd, rn, src, sf, c) /\ AssemblerOnly
  \/ \E rd \in DataRds, rn \in DataRns, src \in SrcOperands, sf \in BOOLEAN,
        c \in DataConds : EmitOnce /\ eor(rd, rn, src, sf, c) /\ AssemblerOnly
  \/ \E rd \in DataRds, rn \in DataRns, src \in SrcOperands, sf \in BOOLEAN,
        c \in DataConds : EmitOnce /\ orr(rd, rn, src, sf, c) /\ AssemblerOnly
  \/ \E rd \in DataRds, rn \in DataRns, src \in SrcOperands, sf \in BOOLEAN,
        c \in DataConds : EmitOnce /\ rsb(rd, rn, src, sf, c) /\ AssemblerOnly
  \/ \E rd \in DataRds, rn \in DataRns, src \in SrcOperands, sf \in BOOLEAN,
        c \in DataConds : EmitOnce /\ rsc(rd, rn, src, sf, c) /\ AssemblerOnly
  \/ \E rd \in DataRds, rn \in DataRns, src \in SrcOperands, sf \in BOOLEAN,
        c \in DataConds : EmitOnce /\ sbc(rd, rn, src, sf, c) /\ AssemblerOnly
  \/ \E rd \in DataRds, rn \in DataRns, src \in SrcOperands, sf \in BOOLEAN,
        c \in DataConds : EmitOnce /\ sub(rd, rn, src, sf, c) /\ AssemblerOnly
  \/ \E rd \in DataRds, src \in SrcOperands, c \in DefinedConds : EmitOnce /\ mov(rd, src, c) /\ AssemblerOnly
  \/ \E rt \in GPRegs, c \in DefinedConds : EmitOnce /\ pop(Reg(rt), c) /\ AssemblerOnly
  \/ \E n \in 1 .. MaxWords - 1 : lastOp.name = "init" /\ padWithNop(n * kWordSize) /\ AssemblerOnly

SpecEmit == Init /\ [][NextEmit]_vars

(***************************************************************************)
(* Emission of single loads and stores over a range of address operands.   *)
(***************************************************************************)
\* The addressing modes a request may carry: every combination of the P, U
\* and W bits.  Six of them are the enumerators of OperandARM32Mem::AddrMode.
AddrModes ==
  {OrW(OrW(p, u), w) : p \in {ZeroW, P}, u \in {ZeroW, U}, w \in {ZeroW, W}}
MemConds == {CondAL}
MemRts == {Reg(Encoded_Reg_r0), Reg(1), Reg(Encoded_Reg_pc)}
MemTys == {"i8", "i16", "i32", "i64"}
MemBases == {Reg(1), Reg(Encoded_Reg_sp)}
MemIndexes == {Reg(1), Reg(2), Reg(Encoded_Reg_pc)}
MemOffsets ==
  {0, 2, 4, 8, 255, 256, -255, -256, 1020, -1020, 1024, 4095, 4096, -4095, -4096}
StackOffsets == {0, 255, 256, 1020, 4095, 4096}
FpRegs == {Reg(0), Reg(17)}
MemAddresses ==
  {MemImm(rn, o, m) : rn \in MemBases, o \in MemOffsets, m \in AddrModes}
    \cup {MemReg(rn, rm, "kNoShift", 0, m) : rn \in MemBases, rm \in MemIndexes, m \in AddrModes}
    \cup {MemReg(rn, rm, "LSL", 2, m) : rn \in MemBases, rm \in MemIndexes, m \in AddrModes}
    \cup {StackVar(o) : o \in StackOffsets}
    \cup {Reg(2)}

NextMem ==
  \/ \E rt \in MemRts, ty \in MemTys, a \in MemAddresses, c \in MemConds :
       EmitOnce /\ ldr(rt, ty, a, c) /\ AssemblerOnly
  \/ \E rt \in MemRts, ty \in MemTys, a \in MemAddresses, c \in MemConds :
       EmitOnce /\ str(rt, ty, a, c) /\ AssemblerOnly
  \/ \E d \in FpRegs, a \in MemAddresses, c \in MemConds : EmitOnce /\ vldrd(d, a, c) /\ AssemblerOnly
  \/ \E d \in FpRegs, a \in MemAddresses, c \in MemConds : EmitOnce /\ vldrs(d, a, c) /\ AssemblerOnly
  \/ \E d \in FpRegs, a \in MemAddresses, c \in MemConds : EmitOnce /\ vstrd(d, a, c) /\ AssemblerOnly
  \/ \E d \in FpRegs, a \in MemAddresses, c \in MemConds : EmitOnce /\ vstrs(d, a, c) /\ AssemblerOnly

SpecMem == Init /\ [][NextMem]_vars

(***************************************************************************)
(* The layout of the buffer: instructions, padding, traps, branches, binds *)
(* and text annotations of any size.                                       *)
(***************************************************************************)
\* TrapBytesRaw = {0xE7, 0xFE, 0xDE, 0xF0}
TrapBytes == << 231, 254, 222, 240 >>

\* reverse_range(TrapBytes)
reverse_range(bytes) == [i \in 1 .. Len(bytes) |-> bytes[Len(bytes) + 1 - i]]

\* Variant of trap whose loop stops one byte early.
trap_shortLoop ==
  /\ Fatal = NoError
  /\ BufferSize(Buffer) < MaxWords * kWordSize
  /\ Buffer' = Buffer \o SubSeq(reverse_range(TrapBytes), 1, Len(TrapBytes) - 1)
  /\ lastOp' = [name |-> "trap", size |-> BufferSize(Buffer)]
  /\ UNCHANGED <<Labels, Fixups, Fatal, fwdRefs>>

\* AssemblerARM32::trap()
trap ==
  /\ Fatal = NoError
  /\ BufferSize(Buffer) < MaxWords * kWordSize
  /\ Buffer' = Buffer \o reverse_range(TrapBytes)
  /\ lastOp' = [name |-> "trap", size |-> BufferSize(Buffer)]
  /\ UNCHANGED <<Labels, Fixups, Fatal, fwdRefs>>

\* createTextFixup(Text, InstSize) followed by emitFixup: a text fixup of
\* InstSize bytes at the current buffer size.
createTextFixup(fixups, Text, InstSize, Position) ==
  Append(fixups, [position |-> Position, kind |-> 0, value |-> Text, size |-> InstSize])

\* The buffer after n bytes of value 0 are emitted.
RECURSIVE emitZeros(_, _)
emitZeros(buf, n) == IF n = 0 THEN buf ELSE emitZeros(Append(buf, 0), n - 1)

\* AssemblerARM32::emitTextInst(const std::string &Text, SizeT InstSize)
emitTextInst(Text, InstSize) ==
  /\ Fatal = NoError
  /\ BufferSize(Buffer) < MaxWords * kWordSize
  /\ Len(Fixups) < MaxTextInsts
  /\ Fixups' = createTextFixup(Fixups, Text, InstSize, BufferSize(Buffer))
  /\ Buffer' = emitZeros(Buffer, InstSize)
  /\ lastOp' = [name |-> "emitTextInst", InstSize |-> InstSize, size |-> BufferSize(Buffer)]
  /\ UNCHANGED <<Labels, Fatal, fwdRefs>>

TextSizes == {0, 1, 4}
LayoutSrcs == {Reg(2)}

NextLayout ==
  \/ \E src \in LayoutSrcs : mov(Reg(Encoded_Reg_r0), src, CondAL) /\ AssemblerOnly
  \/ padWithNop(kWordSize) /\ AssemblerOnly
  \/ trap /\ AssemblerOnly
  \/ b(0, CondAL) /\ AssemblerOnly
  \/ bind(0) /\ AssemblerOnly
  \/ \E n \in TextSizes : emitTextInst(".text", n) /\ AssemblerOnly

SpecLayout == Init /\ [][NextLayout]_vars

(***************************************************************************)
(* Loads of 16-bit immediates: movw and movt on constants and symbols.     *)
(***************************************************************************)
MovwtRds == {Reg(Encoded_Reg_r0), Reg(1), StackVar(0)}
MovwtSrcs ==
  { Relocatable("f"), Relocatable("g"), Const32(ToW(4660)), Const32(ToW(65536)), Reg(2) }

NextMovwt ==
  \/ \E rd \in MovwtRds, src \in MovwtSrcs : movw(rd, src, CondAL) /\ AssemblerOnly
  \/ \E rd \in MovwtRds, src \in MovwtSrcs : movt(rd, src, CondAL) /\ AssemblerOnly

SpecMovwt == Init /\ [][NextMovwt]_vars

(***************************************************************************)
(* The operand encoder applied to registers shifted by a constant amount.  *)
(***************************************************************************)
\* Shift amounts: ShAmtImm operands and 32-bit constants, the latter with the
\* values -1, INT_MIN and a large positive one.
ShiftKinds == {"LSL", "LSR", "ASR", "ROR"}
ShiftRms == {Reg(0), Reg(2), Reg(12), Reg(15)}
ShiftAmounts ==
  {ShAmtImm(n) : n \in {0, 1, 16, 31, 32, 33, 255}}
    \cup {Const32(ToW(n)) : n \in {0, 1, 31, 32, 4096}}
    \cup {Const32([hi |-> 255, lo |-> 2 ^ 24 - 1]), Const32([hi |-> 128, lo |-> 0]),
          Const32([hi |-> 127, lo |-> 31])}

\* encodeOperand(Opnd, Value, WantGPRegs) of one operand.
encodeOperandOf(Opnd) ==
  /\ lastOp' = [name |-> "encodeOperand", Opnd |-> Opnd,
                enc |-> encodeOperand(Opnd, "WantGPRegs")]
  /\ UNCHANGED <<Buffer, Labels, Fixups, Fatal, fwdRefs>>

NextOperand ==
  \E rm \in ShiftRms, k \in ShiftKinds, a \in ShiftAmounts :
    encodeOperandOf(FlexReg(rm, k, a)) /\ AssemblerOnly

SpecOperand == Init /\ [][NextOperand]_vars

(***************************************************************************)
(* The branch displacement codec applied to sampled offsets and words.     *)
(***************************************************************************)
\* Offsets next to both edges of the 24-bit range and around zero, with
\* three unaligned and two out-of-range ones.
CodecFields ==
  (-(2 ^ 23) - 1 .. -(2 ^ 23) + CodecSpan) \cup (-CodecSpan .. CodecSpan)
    \cup (2 ^ 23 - 1 - CodecSpan .. 2 ^ 23)
CodecOffsets ==
  {kPCReadOffset + 4 * k : k \in CodecFields} \cup {5, 6, 7, 9, 10, 11}
CodecInsts ==
  { [hi |-> 234, lo |-> 0], [hi |-> 27, lo |-> 16777215], [hi |-> 235, lo |-> 1193046] }

codec(Offset, Inst) ==
  /\ lastOp' = LET Enc == encodeBranchOffset(Offset, Inst)
               IN [name |-> "codec", Offset |-> Offset, Inst |-> Inst, enc |-> Enc,
                   dec |-> decodeBranchOffset(Enc.value)]
  /\ UNCHANGED <<Buffer, Labels, Fixups, Fatal, fwdRefs>>

NextCodec == \E o \in CodecOffsets, i \in CodecInsts : codec(o, i) /\ AssemblerOnly

SpecCodec == Init /\ [][NextCodec]_vars

(***************************************************************************)
(* The table of CFG node labels.  A Label pointer is the number of the     *)
(* Label object, in allocation order; object l has the position Labels[l]. *)
(***************************************************************************)
\* std::vector::resize to a larger size: the new slots hold null pointers.
resize(Table, n) == Table \o [i \in 1 .. n - Len(Table) |-> nullptr]

\* Variant of getOrCreateLabel that allocates a Label on every lookup of a
\* number below the size of the table.
getOrCreateLabel_alwaysNew(Number, Table, NextFree) ==
  IF Number = Len(Table)
  THEN [Labels |-> Append(Table, NextFree), L |-> NextFree, allocated |-> NextFree + 1]
  ELSE LET Resized == IF Number > Len(Table) THEN resize(Table, Number + 1) ELSE Table
       IN [Labels |-> [Resized EXCEPT ![Number + 1] = NextFree], L |-> NextFree,
           allocated |-> NextFree + 1]

\* AssemblerARM32::getOrCreateLabel(SizeT Number, LabelVector &Labels): the
\* table after the call, the Label returned and the number of Label objects
\* allocated so far (NextFree is the object the next allocation yields).
getOrCreateLabel(Number, Table, NextFree) ==
  IF Number = Len(Table)
  THEN [Labels |-> Append(Table, NextFree), L |-> NextFree, allocated |-> NextFree + 1]
  ELSE LET Resized == IF Number > Len(Table) THEN resize(Table, Number + 1) ELSE Table
       IN IF Resized[Number + 1] = nullptr
          THEN [Labels |-> [Resized EXCEPT ![Number + 1] = NextFree], L |-> NextFree,
                allocated |-> NextFree + 1]
          ELSE [Labels |-> Resized, L |-> Resized[Number + 1], allocated |-> NextFree]

\* AssemblerARM32::getOrCreateCfgNodeLabel(SizeT NodeNumber), a lookup in the
\* table of CFG node labels.  At most NumLabels Label objects are allocated.
getOrCreateCfgNodeLabel(NodeNumber) ==
  /\ Fatal = NoError
  /\ LET r == getOrCreateLabel(NodeNumber, CfgNodeLabels, Allocated)
     IN /\ r.allocated <= NumLabels
        /\ CfgNodeLabels' = r.Labels
        /\ Allocated' = r.allocated
        /\ lastOp' = [name |-> "getOrCreateCfgNodeLabel", Number |-> NodeNumber, L |-> r.L]
  /\ UNCHANGED <<Buffer, Labels, Fixups, Fatal, fwdRefs, streamerVars, nucleusVars>>

\* AssemblerARM32::bindCfgNodeLabel(const CfgNode *Node) on the node with
\* index NodeNumber, in the final (not preliminary) pass.  Dump is
\* BuildDefs::dump() && !getDisableHybridAssembly(): the name of the label is
\* then emitted as a text annotation of size 0 (one annotation is followed).
bindCfgNodeLabel(NodeNumber, Dump) ==
  /\ Fatal = NoError
  /\ Dump => Fixups = << >>
  /\ LET r == getOrCreateLabel(NodeNumber, CfgNodeLabels, Allocated)
         Lbl == r.L
         BoundPc == BufferSize(Buffer)
     IN /\ r.allocated <= NumLabels
        /\ Fixups' = IF Dump THEN createTextFixup(Fixups, "node:", 0, BoundPc) ELSE Fixups
        /\ CfgNodeLabels' = r.Labels
        /\ Allocated' = r.allocated
        /\ lastOp' = [name |-> "bindCfgNodeLabel", Number |-> NodeNumber, label |-> Lbl,
                      size |-> BoundPc]
        /\ IF isBound(Labels[Lbl])
           THEN /\ Fatal' = "assert: !L->isBound()"
                /\ UNCHANGED <<Buffer, Labels>>
           ELSE LET walk == bindLoop(Buffer, Labels[Lbl], BoundPc)
                IN /\ Buffer' = walk.buf
                   /\ Fatal' = walk.fatal
                   /\ Labels' = [Labels EXCEPT ![Lbl] =
                                   IF walk.fatal = NoError THEN bindTo(BoundPc)
                                   ELSE walk.pos]
  /\ UNCHANGED <<fwdRefs, streamerVars, nucleusVars>>

NodeNumbers == 0 .. MaxNode

\* Lookups and binds of node labels in any order, with branches to the
\* Labels already handed out.
NextLabels ==
  \/ \E n \in NodeNumbers : getOrCreateCfgNodeLabel(n)
  \/ \E n \in NodeNumbers, d \in BOOLEAN : bindCfgNodeLabel(n, d)
  \/ \E l \in LabelIds :
       /\ l < Allocated
       /\ BufferSize(Buffer) < MaxLabelWords * kWordSize
       /\ b(l, CondAL)
       /\ UNCHANGED <<labelVars, streamerVars, nucleusVars>>

SpecLabels == Init /\ [][NextLabels]_vars

(***************************************************************************)
(* ELFMemoryStreamer (src/src/Reactor/SubzeroReactor.cpp).  A std::size_t  *)
(* is held as its residue next to 0: the largest value is -1, and sums     *)
(* wrap as they do in the code.  buffer is a sequence of bytes.            *)
(***************************************************************************)
\* std::numeric_limits<std::size_t>::max()
SIZE_MAX == -1

\* a < b on std::size_t values.
SizeLess(x, y) == IF (x < 0) = (y < 0) THEN x < y ELSE y < 0

\* The image as the loader reads it, one byte for each unit: the first byte
\* stands for the ELF header, which passes checkMagic when it is ELFMAG0, and
\* every later byte for a section header, ExecSection being a SHT_PROGBITS
\* section with SHF_EXECINSTR.  An empty buffer reads as reserved memory
\* filled with zeros.
ELFMAG0 == 127
ExecSection == 1
checkMagic(elfImage) == Len(elfImage) > 0 /\ elfImage[1] = ELFMAG0

\* loadImage(uint8_t *const elfImage): the entry, as the offset of the last
\* executable section, or nullptr.
loadImage(elfImage) ==
  IF ~checkMagic(elfImage) THEN nullptr
  ELSE LET execs == {i \in 2 .. Len(elfImage) : elfImage[i] = ExecSection}
       IN IF execs = {} THEN nullptr
          ELSE (CHOOSE i \in execs : \A k \in execs : k <= i) - 1

\* The fields after ELFMemoryStreamer::write8(Value) on the given fields.
write8Step(buf, pos, Value) ==
  IF pos = Len(buf)
  THEN [buffer |-> Append(buf, Value), position |-> pos + 1, fatal |-> NoError]
  ELSE IF SizeLess(pos, Len(buf))
  THEN [buffer |-> [buf EXCEPT ![pos + 1] = Value], position |-> pos + 1, fatal |-> NoError]
  ELSE [buffer |-> buf, position |-> pos, fatal |-> "assert: UNIMPLEMENTED"]

\* The fields after write8 on each byte of Bytes in order, up to the first
\* one that fails.
RECURSIVE write8Each(_, _, _)
write8Each(buf, pos, Bytes) ==
  IF Bytes = << >> THEN [buffer |-> buf, position |-> pos, fatal |-> NoError]
  ELSE LET r == write8Step(buf, pos, Head(Bytes))
       IN IF r.fatal # NoError THEN r
          ELSE write8Each(r.buffer, r.position, Tail(Bytes))

\* ELFMemoryStreamer::write8(uint8_t Value)
write8(Value) ==
  /\ Fatal = NoError
  /\ Len(buffer) < MaxBytes \/ position # Len(buffer)
  /\ LET r == write8Step(buffer, position, Value)
     IN /\ buffer' = r.buffer
        /\ position' = r.position
        /\ Fatal' = r.fatal
  /\ lastOp' = [name |-> "write8", Bytes |-> <<Value>>, at |-> position]
  /\ UNCHANGED <<entry, oldProtection, protection, loads>>
  /\ UNCHANGED <<Buffer, Labels, Fixups, fwdRefs, labelVars, nucleusVars>>

\* ELFMemoryStreamer::writeBytes(llvm::StringRef Bytes)
writeBytes(Bytes) ==
  /\ Fatal = NoError
  /\ Len(buffer) + Len(Bytes) <= MaxBytes
  /\ LET oldSize == Len(buffer)
         resized == buffer \o [i \in 1 .. Len(Bytes) |-> 0]
     IN buffer' = [i \in 1 .. Len(resized) |->
                     IF i > oldSize THEN Bytes[i - oldSize] ELSE resized[i]]
  /\ position' = position + Len(Bytes)
  /\ lastOp' = [name |-> "writeBytes", Bytes |-> Bytes, at |-> position]
  /\ UNCHANGED <<entry, oldProtection, protection, loads>>
  /\ UNCHANGED <<Buffer, Labels, Fixups, Fatal, fwdRefs, labelVars, nucleusVars>>

\* ELFMemoryStreamer::tell()
tell == position

\* ELFMemoryStreamer::seek(uint64_t Off)
seek(Off) ==
  /\ Fatal = NoError
  /\ position' = Off
  /\ lastOp' = [name |-> "seek", Off |-> Off, at |-> position]
  /\ UNCHANGED <<buffer, entry, oldProtection, protection, loads>>
  /\ UNCHANGED <<Buffer, Labels, Fixups, Fatal, fwdRefs, labelVars, nucleusVars>>

\* ELFMemoryStreamer::getEntry().  loads counts the calls of loadImage, each
\* of which applies the relocations of the image.  On an empty buffer
\* &buffer[0] is undefined: the call either stops the program (checked
\* subscripts) or goes on with the reserved memory.
getEntry ==
  /\ Fatal = NoError
  /\ entry = nullptr => loads < MaxLoads
  /\ \E checked \in (IF entry = nullptr /\ buffer = << >> THEN BOOLEAN ELSE {FALSE}) :
       IF checked
       THEN /\ Fatal' = "vector subscript out of range"
            /\ UNCHANGED <<oldProtection, protection, position, entry, loads>>
       ELSE IF entry = nullptr
       THEN /\ oldProtection' = protection
            /\ protection' = PAGE_EXECUTE_READWRITE
            /\ position' = SIZE_MAX
            /\ entry' = loadImage(buffer)
            /\ loads' = loads + 1
            /\ UNCHANGED Fatal
       ELSE UNCHANGED <<oldProtection, protection, position, entry, loads, Fatal>>
  /\ lastOp' = [name |-> "getEntry", result |-> entry', first |-> loads = 0]
  /\ UNCHANGED buffer
  /\ UNCHANGED <<Buffer, Labels, Fixups, fwdRefs, labelVars, nucleusVars>>

StreamBytes == {0, ExecSection, ELFMAG0}
StreamChunks == {<< >>} \cup {<<x>> : x \in StreamBytes} \cup {<<x, y>> : x, y \in StreamBytes}
SeekOffsets == 0 .. MaxBytes + 1

NextStreamer ==
  \/ \E v \in StreamBytes : write8(v)
  \/ \E bs \in StreamChunks : writeBytes(bs)
  \/ \E off \in SeekOffsets : seek(off)
  \/ getEntry

SpecStreamer == Init /\ [][NextStreamer]_vars

(***************************************************************************)
(* Nucleus (src/src/Reactor/SubzeroReactor.cpp): threads construct and     *)
(* destroy Nucleus objects.  A pointer to an object created by thread t is *)
(* t; delete leaves the pointer as it is.                                  *)
(***************************************************************************)
\* Variant of the mutex that never makes a caller wait.
mutexFree_always == TRUE

\* std::mutex::lock returns only when no thread holds the mutex.
mutexFree == codegenMutex = Unlocked

\* Nucleus::Nucleus() is called: ::codegenMutex.lock() either takes the mutex
\* or blocks the thread.
NucleusCall(t) ==
  /\ pc[t] = "idle"
  /\ IF mutexFree
     THEN /\ codegenMutex' = t
          /\ pc' = [pc EXCEPT ![t] = "flags"]
          /\ UNCHANGED waited
     ELSE /\ pc' = [pc EXCEPT ![t] = "blocked"]
          /\ waited' = waited \cup {t}
          /\ UNCHANGED codegenMutex
  /\ lastOp' = [name |-> "Nucleus", thread |-> t]
  /\ UNCHANGED <<context, function, routine>>
  /\ UNCHANGED <<Buffer, Labels, Fixups, Fatal, fwdRefs, labelVars, streamerVars>>

\* ::codegenMutex.lock() returns in a thread that was blocked in it.
NucleusWake(t) ==
  /\ pc[t] = "blocked"
  /\ mutexFree
  /\ codegenMutex' = t
  /\ pc' = [pc EXCEPT ![t] = "flags"]
  /\ lastOp' = [name |-> "lock", thread |-> t]
  /\ UNCHANGED <<context, function, routine, waited>>
  /\ UNCHANGED <<Buffer, Labels, Fixups, Fatal, fwdRefs, labelVars, streamerVars>>

\* Nucleus::Nucleus(): the flags of the code generator are set.
NucleusFlags(t) ==
  /\ pc[t] = "flags"
  /\ pc' = [pc EXCEPT ![t] = "create"]
  /\ lastOp' = [name |-> "flags", thread |-> t]
  /\ UNCHANGED <<codegenMutex, context, function, routine, waited>>
  /\ UNCHANGED <<Buffer, Labels, Fixups, Fatal, fwdRefs, labelVars, streamerVars>>

\* Nucleus::Nucleus(): the streamer and the context are created and the
\* constructor returns.
NucleusCreate(t) ==
  /\ pc[t] = "create"
  /\ context' = t
  /\ routine' = t
  /\ pc' = [pc EXCEPT ![t] = "live"]
  /\ lastOp' = [name |-> "create", thread |-> t]
  /\ UNCHANGED <<codegenMutex, function, waited>>
  /\ UNCHANGED <<Buffer, Labels, Fixups, Fatal, fwdRefs, labelVars, streamerVars>>

\* Nucleus::createFunction, called by the thread that owns the live Nucleus.
createFunction(t) ==
  /\ pc[t] = "live"
  /\ function # t
  /\ function' = t
  /\ lastOp' = [name |-> "createFunction", thread |-> t, context |-> context]
  /\ UNCHANGED <<codegenMutex, pc, context, routine, waited>>
  /\ UNCHANGED <<Buffer, Labels, Fixups, Fatal, fwdRefs, labelVars, streamerVars>>

\* Nucleus::~Nucleus(): the objects of the code generator are deleted.
NucleusDelete(t) ==
  /\ pc[t] = "live"
  /\ pc' = [pc EXCEPT ![t] = "unlock"]
  /\ lastOp' = [name |-> "~Nucleus", thread |-> t]
  /\ UNCHANGED <<codegenMutex, context, function, routine, waited>>
  /\ UNCHANGED <<Buffer, Labels, Fixups, Fatal, fwdRefs, labelVars, streamerVars>>

\* Nucleus::~Nucleus(): ::codegenMutex.unlock(), and the destructor returns.
NucleusUnlock(t) ==
  /\ pc[t] = "unlock"
  /\ codegenMutex' = Unlocked
  /\ pc' = [pc EXCEPT ![t] = "idle"]
  /\ waited' = waited \ {t}
  /\ lastOp' = [name |-> "unlock", thread |-> t]
  /\ UNCHANGED <<context, function, routine>>
  /\ UNCHANGED <<Buffer, Labels, Fixups, Fatal, fwdRefs, labelVars, streamerVars>>

NextNucleus ==
  \/ \E t \in Threads : NucleusCall(t)
  \/ \E t \in Threads : NucleusWake(t)
  \/ \E t \in Threads : NucleusFlags(t)
  \/ \E t \in Threads : NucleusCreate(t)
  \/ \E t \in Threads : createFunction(t)
  \/ \E t \in Threads : NucleusDelete(t)
  \/ \E t \in Threads : NucleusUnlock(t)

SpecNucleus == Init /\ [][NextNucleus]_vars

\* A thread inside the constructor or the destructor goes on running, and a
\* thread blocked in lock() takes the mutex if the mutex stays free.  Nothing
\* makes a thread call the constructor or the destructor.
SpecNucleusFair ==
  /\ SpecNucleus
  /\ \A t \in Threads :
       /\ WF_vars(NucleusWake(t))
       /\ WF_vars(NucleusFlags(t))
       /\ WF_vars(NucleusCreate(t))
       /\ WF_vars(NucleusUnlock(t))

(***************************************************************************)
(* Properties.                                                             *)
(***************************************************************************)
\* The word appended by the last request, which started at lastOp.size.
LastWord == BufferLoad(Buffer, lastOp.size)
AppendedOne == BufferSize(Buffer) = lastOp.size + kWordSize /\ Fatal = NoError
AppendedNone == BufferSize(Buffer) = lastOp.size /\ Fatal # NoError

DataOpNames == {"adc", "add", "and", "bic", "eor", "orr", "rsb", "rsc", "sbc", "sub"}

\* The pending chain of a label: the sites visited by following the link
\* fields from the label's position, at most fuel of them.
RECURSIVE chainWalk(_, _)
chainWalk(Pos, fuel) ==
  IF ~isLinked(Pos) \/ fuel = 0 THEN << >>
  ELSE LET site == getLinkPosition(Pos)
       IN IF site < 0 \/ site + kWordSize > BufferSize(Buffer) THEN << site >>
          ELSE << site >> \o chainWalk(decodeBranchOffset(BufferLoad(Buffer, site)),
                                       fuel - 1)

Chain(l) == chainWalk(Labels[l], BufferSize(Buffer) + 1)
ChainSites(l) == LET c == Chain(l) IN {c[i] : i \in 1 .. Len(c)}

\* C1: once a label is bound, every site that referenced it while it was
\* unbound holds a branch word whose decoded displacement leads from the
\* site to the bound position.
C1_BindPatchesAllSites ==
  \A l \in LabelIds :
    isBound(Labels[l]) =>
      \A s \in fwdRefs[l] :
        s + decodeBranchOffset(BufferLoad(Buffer, s)) = getPosition(Labels[l])

\* A label with two forward references, interleaved with a reference to the
\* other label, has just been bound.
C1_Witness ==
  /\ lastOp.name = "bind"
  /\ Fatal = NoError
  /\ \E l \in LabelIds, m \in LabelIds :
       /\ l # m
       /\ lastOp.label = l
       /\ Cardinality(fwdRefs[l]) >= 2
       /\ \E s1 \in fwdRefs[l], s2 \in fwdRefs[l], t \in fwdRefs[m] : s1 < t /\ t < s2

\* C2: decoding the encoding of a representable offset gives the offset
\* back, whatever the base word, and the encoding is not a fatal error.
C2_Representable(Offset) ==
  /\ (Offset - 8) % 4 = 0
  /\ -(2 ^ 23) <= (Offset - 8) \div 4
  /\ (Offset - 8) \div 4 <= 2 ^ 23 - 1

C2_CodecRoundTrip ==
  (lastOp.name = "codec" /\ C2_Representable(lastOp.Offset)) =>
    (lastOp.enc.fatal = NoError /\ lastOp.dec = lastOp.Offset)

\* The most negative representable offset has made the round trip.
C2_Witness ==
  /\ lastOp.name = "codec"
  /\ lastOp.Offset = 8 - 4 * (2 ^ 23)
  /\ lastOp.enc.fatal = NoError
  /\ lastOp.dec = lastOp.Offset

\* C3: a bind of a label that is already bound is a fatal error that leaves
\* the buffer and every label as they were.
C3_RebindRejected ==
  [][(lastOp'.name = "bind" /\ isBound(Labels[lastOp'.label])) =>
       (Fatal' # NoError /\ Buffer' = Buffer /\ Labels' = Labels)]_vars

\* A second bind of a bound label has been rejected.
C3_Witness ==
  /\ lastOp.name = "bind"
  /\ Fatal = "assert: !L->isBound()"
  /\ isBound(Labels[lastOp.label])

\* C4: a bind sets the label's position to the buffer size at the call,
\* which is at most the buffer length, and the position of a bound label
\* never changes afterwards.
C4_BoundPositionFixed ==
  [][\A l \in LabelIds :
       /\ isBound(Labels[l]) => Labels'[l] = Labels[l]
       /\ (~isBound(Labels[l]) /\ isBound(Labels'[l])) =>
            /\ getPosition(Labels'[l]) = BufferSize(Buffer)
            /\ getPosition(Labels'[l]) <= BufferSize(Buffer')]_vars

\* A label bound before the end of the buffer has just been referenced again.
C4_Witness ==
  /\ lastOp.name = "b"
  /\ lastOp.wasBound
  /\ Fatal = NoError
  /\ isBound(Labels[lastOp.label])
  /\ getPosition(Labels[lastOp.label]) < lastOp.size

\* The scenario of C5: an unconditional branch at site S to label l, then
\* exactly three nop words, then the bind of l.
C5_Scenario(S, l) ==
  /\ S \in fwdRefs[l]
  /\ isBound(Labels[l])
  /\ getPosition(Labels[l]) = S + 4 * kWordSize
  /\ BufferLoad(Buffer, S).hi = 234
  /\ \A i \in 1 .. 3 : BufferLoad(Buffer, S + i * kWordSize) = NopWord

\* C5 as stated: after b(L), three nops and bind(L) the branch word decodes
\* to a target-minus-site displacement of 12.
C5_Original ==
  \A l \in LabelIds : \A S \in fwdRefs[l] :
    C5_Scenario(S, l) => decodeBranchOffset(BufferLoad(Buffer, S)) = 12

\* C5 amended: the displacement is 16, the branch word itself and the three
\* nop words.
C5_Amended ==
  \A l \in LabelIds : \A S \in fwdRefs[l] :
    C5_Scenario(S, l) => decodeBranchOffset(BufferLoad(Buffer, S)) = 16

C5_Witness ==
  /\ lastOp.name = "bind"
  /\ Fatal = NoError
  /\ C5_Scenario(0, lastOp.label)

\* C6: a data-processing instruction with destination pc and SetFlags is a
\* fatal error and the buffer is left as it was.
C6_PcWithSetFlagsRejected ==
  [][(/\ lastOp'.name \in DataOpNames
      /\ lastOp'.Rd = Reg(Encoded_Reg_pc)
      /\ lastOp'.SetFlags) =>
       (Fatal' # NoError /\ Buffer' = Buffer)]_vars

\* rsc with destination pc and SetFlags has been rejected by the pc rule.
C6_Witness ==
  /\ lastOp.name = "rsc"
  /\ lastOp.Rd = Reg(Encoded_Reg_pc)
  /\ lastOp.SetFlags
  /\ Fatal = "rsc: pc=pc not allowed when CC=1"
  /\ BufferSize(Buffer) = lastOp.size

\* The 32-bit values of all rotated 8-bit immediates.
C7_RotateRight(imm8, k) ==
  IF k = 0 THEN ToW(imm8)
  ELSE LET high == Shl(imm8, 32 - k)
           low == imm8 \div (2 ^ k)
       IN [hi |-> high.hi, lo |-> high.lo + low]

C7_Representable(v) ==
  \E rot \in 0 .. 15, imm8 \in 0 .. 255 : C7_RotateRight(imm8, 2 * rot) = v

\* C7: the constant 0xFF000001 is a fatal error with no word appended; a
\* constant operand is emitted only in immediate form (type 001) with a
\* rotate/imm8 pair whose rotation is the constant, and it is rejected only
\* when no such pair exists.
C7_ConstOperand ==
  (lastOp.name \in DataOpNames \cup {"mov"} /\ lastOp.Src.kind = "ConstantInteger32") =>
    /\ lastOp.Src.Value = ConstFF000001 => AppendedNone
    /\ Fatal = NoError =>
         /\ AppendedOne
         /\ (LastWord.hi \div 2) % 8 = kInstTypeDataImmediate
         /\ C7_RotateRight(LastWord.lo % 256, 2 * ((LastWord.lo \div 256) % 16))
              = lastOp.Src.Value
    /\ Fatal = lastOp.name \o ": Immediate rotated constant not valid" =>
         ~C7_Representable(lastOp.Src.Value)

\* add r0, r1, #0xFF000001 has been rejected as not encodable.
C7_Witness ==
  /\ lastOp.name = "add"
  /\ lastOp.Src = Const32(ConstFF000001)
  /\ lastOp.Rd = Reg(Encoded_Reg_r0)
  /\ Fatal = "add: Immediate rotated constant not valid"
  /\ BufferSize(Buffer) = lastOp.size

\* 0xE3A00005
WordE3A00005 == [hi |-> 227, lo |-> 10485765]

\* C8: mov r0, #5 with condition AL appends exactly the word 0xE3A00005.
C8_MovImm5 ==
  (/\ lastOp.name = "mov"
   /\ lastOp.Rd = Reg(Encoded_Reg_r0)
   /\ lastOp.Src = Const32(ToW(5))
   /\ lastOp.Cond = CondAL) =>
    (AppendedOne /\ LastWord = WordE3A00005)

C8_Witness ==
  /\ lastOp.name = "mov"
  /\ lastOp.Rd = Reg(Encoded_Reg_r0)
  /\ lastOp.Src = Const32(ToW(5))
  /\ lastOp.Cond = CondAL
  /\ BufferSize(Buffer) = lastOp.size + kWordSize

\* C9: pop of a register other than sp appends exactly the word
\* cccc 0100 1001 1101 tttt 0000 0000 0100 (0x049D0004 | c << 28 | Rt << 12).
C9_PopEncoding ==
  (/\ lastOp.name = "pop"
   /\ lastOp.Rt.RegNum # Encoded_Reg_sp) =>
    /\ AppendedOne
    /\ LastWord = [hi |-> lastOp.Cond * 16 + 4,
                   lo |-> 10289156 + lastOp.Rt.RegNum * 4096]

\* pop {pc} with condition EQ has been emitted.
C9_Witness ==
  /\ lastOp.name = "pop"
  /\ lastOp.Rt = Reg(Encoded_Reg_pc)
  /\ lastOp.Cond = CondEQ
  /\ BufferSize(Buffer) = lastOp.size + kWordSize

\* C10: the pending chains of the labels are pairwise disjoint, no chain
\* visits a site twice, and the chain of an unbound label is made of
\* exactly the sites that referenced it.
C10_ChainsDisjoint ==
  /\ \A l \in LabelIds :
       LET c == Chain(l)
           sites == {c[i] : i \in 1 .. Len(c)}
       IN /\ Cardinality(sites) = Len(c)
          /\ ~isBound(Labels[l]) => sites = fwdRefs[l]
  /\ \A l \in LabelIds, m \in LabelIds :
       l < m => ChainSites(l) \cap ChainSites(m) = {}

\* Two labels are pending at once, each with two interleaved sites.
C10_Witness ==
  \E l \in LabelIds, m \in LabelIds :
    /\ l # m
    /\ Len(Chain(l)) >= 2
    /\ Len(Chain(m)) >= 2
    /\ \E s1 \in ChainSites(l), s2 \in ChainSites(l), t \in ChainSites(m) :
         s1 < t /\ t < s2

\* The positions of the installed fixups.
FixupPositions == {Fixups[i].position : i \in 1 .. Len(Fixups)}

\* C11: no installed fixup has a position that is a site on the pending
\* chain of an unbound label, nor a site that ever referenced a label: bl
\* never joins a chain and b never installs a fixup.
C11_FixupsOffChains ==
  \A l \in LabelIds :
    /\ ~isBound(Labels[l]) => FixupPositions \cap ChainSites(l) = {}
    /\ FixupPositions \cap fwdRefs[l] = {}

\* A call has been emitted between two pending references to a label.
C11_Witness ==
  /\ Fatal = NoError
  /\ \E l \in LabelIds, p \in FixupPositions :
       /\ ~isBound(Labels[l])
       /\ \E s1 \in ChainSites(l), s2 \in ChainSites(l) : s1 < p /\ p < s2

\* The bytes emitted by the text annotations installed so far.
RECURSIVE TextBytes(_)
TextBytes(fixups) ==
  IF fixups = << >> THEN 0 ELSE Head(fixups).size + TextBytes(Tail(fixups))

\* C12: the buffer size is a multiple of 4 up to the bytes of the text
\* annotations: instruction emissions, nop padding, trap, branches and binds
\* keep it a multiple of 4, and only emitTextInst with a size that is not a
\* multiple of 4 makes it otherwise.
C12_SizeMultipleOfFour ==
  /\ (BufferSize(Buffer) - TextBytes(Fixups)) % kWordSize = 0
  /\ (\A i \in 1 .. Len(Fixups) : Fixups[i].size % kWordSize = 0) =>
       BufferSize(Buffer) % kWordSize = 0

\* A trap has been emitted after an aligned text annotation, a nop and a
\* branch, and the buffer holds whole words.
C12_Witness ==
  /\ lastOp.name = "trap"
  /\ Len(Fixups) = 1
  /\ Fixups[1].size = 4
  /\ fwdRefs[0] # {}
  /\ BufferSize(Buffer) = 4 * kWordSize
  /\ BufferLoad(Buffer, 3 * kWordSize) = [hi |-> 231, lo |-> 16703216]

\* An offset that is not 4-aligned or whose (offset - 8) / 4 does not fit the
\* signed 24-bit field.
C13_OutOfRange(Offset) ==
  \/ Offset % 4 # 0
  \/ (Offset - 8) \div 4 < -(2 ^ 23)
  \/ (Offset - 8) \div 4 > 2 ^ 23 - 1

\* C13: encodeBranchOffset of an unaligned or out-of-range offset is a fatal
\* error, and whenever it returns a word the displacement field of that
\* word decodes to the offset itself and the other bits are those of Inst.
C13_NoWrappedOffset ==
  lastOp.name = "codec" =>
    /\ C13_OutOfRange(lastOp.Offset) => lastOp.enc.fatal # NoError
    /\ lastOp.enc.fatal = NoError =>
         /\ lastOp.dec = lastOp.Offset
         /\ lastOp.enc.value.hi = lastOp.Inst.hi

\* The first offset above the range has been rejected.
C13_Witness ==
  /\ lastOp.name = "codec"
  /\ lastOp.Offset = kPCReadOffset + 4 * (2 ^ 23)
  /\ lastOp.enc.fatal = "assert: IsGoodOffset"

\* The step appends exactly one word and leaves the earlier bytes alone.
AppendsOneWord ==
  /\ BufferSize(Buffer') = BufferSize(Buffer) + kWordSize
  /\ SubSeq(Buffer', 1, BufferSize(Buffer)) = Buffer

\* The word is a branch (type 101, no link) with the given condition.
IsBranchWord(w, Cond) == w.hi = Cond * 16 + 10

\* C14: b(L) on an unbound label at buffer position site appends exactly one
\* branch word whose displacement field decodes to the previous encoded
\* position of L (0 for a label without references, otherwise the link to
\* the previous chain head), makes site the chain head of L and modifies no
\* earlier word.
C14_UnboundBranchLinks ==
  [][(lastOp'.name = "b" /\ ~isBound(Labels[lastOp'.label])) =>
       LET l == lastOp'.label
           site == BufferSize(Buffer)
           word == BufferLoad(Buffer', site)
       IN /\ Fatal' = NoError
          /\ AppendsOneWord
          /\ IsBranchWord(word, lastOp'.cond)
          /\ decodeBranchOffset(word) = getEncodedPosition(Labels[l])
          /\ isUnused(Labels[l]) => decodeBranchOffset(word) = 0
          /\ isLinked(Labels[l]) =>
               decodeBranchOffset(word) = getLinkPosition(Labels[l]) + kLabelWordSize
          /\ isLinked(Labels'[l])
          /\ getLinkPosition(Labels'[l]) = site
          /\ \A m \in LabelIds \ {l} : Labels'[m] = Labels[m]]_vars

\* A second reference to a label has been linked to the first one.
C14_Witness ==
  /\ lastOp.name = "b"
  /\ Fatal = NoError
  /\ isLinked(lastOp.prev)
  /\ getLinkPosition(Labels[lastOp.label]) = lastOp.size
  /\ decodeBranchOffset(LastWord) = lastOp.prev
  /\ lastOp.size = getLinkPosition(lastOp.prev) + 2 * kWordSize

\* C15: b(L) on a label bound at T at buffer position site appends one
\* branch word whose displacement decodes to T - site, leaves L bound at T
\* and modifies no earlier word.
C15_BoundBranchResolves ==
  [][(lastOp'.name = "b" /\ isBound(Labels[lastOp'.label])) =>
       LET l == lastOp'.label
           site == BufferSize(Buffer)
           word == BufferLoad(Buffer', site)
       IN /\ Fatal' = NoError
          /\ AppendsOneWord
          /\ IsBranchWord(word, lastOp'.cond)
          /\ decodeBranchOffset(word) = getPosition(Labels[l]) - site
          /\ Labels' = Labels
          /\ fwdRefs' = fwdRefs]_vars

\* A backward branch to a label bound two words earlier has been emitted.
C15_Witness ==
  /\ lastOp.name = "b"
  /\ lastOp.wasBound
  /\ Fatal = NoError
  /\ getPosition(Labels[lastOp.label]) = lastOp.size - 2 * kWordSize
  /\ decodeBranchOffset(LastWord) = -2 * kWordSize
  /\ Labels[lastOp.label] = lastOp.prev

\* Bits 25-27 of a word, and its bit 4.
TypeField(w) == (w.hi \div 2) % 8
Bit4(w) == (w.lo \div 16) % 2

\* The form of a source operand, as the operand encoder of emitType01 tells
\* it: register operand, immediate, or register-shifted register.
C16_Form(src) ==
  LET e == encodeOperand(src, "WantGPRegs").enc
  IN CASE e \in {"EncodedAsRegister", "EncodedAsShiftedRegister"} -> "register"
       [] e \in {"EncodedAsConstI32", "EncodedAsRotatedImm8"} -> "immediate"
       [] e = "EncodedAsRegShiftReg" -> "regShiftReg"
       [] OTHER -> "none"

\* The result of the request of lastOp made with another source operand.
C16_WordFor(src) ==
  emitType01(lastOp.Cond, AddOpcode, 0, 1, src, FALSE, "NoChecks", lastOp.name)

C16_Emitted ==
  /\ lastOp.name \in DataOpNames \cup {"mov"}
  /\ Fatal = NoError
  /\ BufferSize(Buffer) = lastOp.size + kWordSize

\* C16 as stated: the type field of the emitted word differs from the type
\* field the emitter gives to a source operand of any other form.
C16_Original ==
  C16_Emitted =>
    \A src \in SrcOperands :
      (/\ C16_Form(src) # "none"
       /\ C16_Form(src) # C16_Form(lastOp.Src)
       /\ IsOk(C16_WordFor(src))) =>
        TypeField(C16_WordFor(src).value) # TypeField(LastWord)

\* C16 amended: the immediate form has type 001; the register-operand form
\* and the register-shifted-register form both have type 000 and differ in
\* bit 4 of the word; the form alone decides.
C16_Amended ==
  C16_Emitted =>
    /\ C16_Form(lastOp.Src) = "immediate" => TypeField(LastWord) = 1
    /\ C16_Form(lastOp.Src) = "register" =>
         TypeField(LastWord) = 0 /\ Bit4(LastWord) = 0
    /\ C16_Form(lastOp.Src) = "regShiftReg" =>
         TypeField(LastWord) = 0 /\ Bit4(LastWord) = 1
    /\ C16_Form(lastOp.Src) # "none"

\* add r0, r1, r2, lsr r3 has been emitted.
C16_Witness ==
  /\ lastOp.name = "add"
  /\ lastOp.Src = FlexReg(Reg(2), "LSR", Reg(3))
  /\ C16_Emitted
  /\ TypeField(LastWord) = 0
  /\ Bit4(LastWord) = 1

\* The address of the load or store of lastOp, as encodeAddress encodes it
\* for the instruction form its type selects.
MemEncodedAddress ==
  encodeAddress(lastOp.Address, TInfoSp,
                IF lastOp.Ty = "i16" THEN "RotatedImm8Enc3Address" ELSE "Imm12Address")

\* Bits 21 (W) and 24 (P) of a word.
WBit(w) == (w.lo \div (2 ^ 21)) % 2
PBit(w) == w.hi % 2

RegOffsetWriteback ==
  /\ lastOp.name \in {"ldr", "str"}
  /\ lastOp.Address.kind = "Mem"
  /\ lastOp.Address.isRegReg
  /\ isBitSet(W, lastOp.Address.AddrMode)

\* C18 as stated: a register-offset load or store that requests writeback
\* with its base register equal to its index register is a fatal error and
\* appends no word.
C18_Original ==
  (RegOffsetWriteback /\ lastOp.Address.Base = lastOp.Address.Index) =>
    AppendedNone

\* C18 amended: a register-offset load or store that requests writeback with
\* its base register equal to its transfer register Rt is a fatal error and
\* appends no word.
C18_Amended ==
  (RegOffsetWriteback /\ lastOp.Address.Base = lastOp.Rt) =>
    AppendedNone

\* ldr r1, [r1, r2]! has been rejected by the rule.
C18_Witness ==
  /\ lastOp.name = "ldr"
  /\ lastOp.Ty = "i32"
  /\ lastOp.Rt = Reg(1)
  /\ lastOp.Address = MemReg(Reg(1), Reg(2), "kNoShift", 0, AddrPreIndex)
  /\ Fatal = "ldr: Rn=Rt not allowed"
  /\ BufferSize(Buffer) = lastOp.size

\* The address operand of lastOp has an immediate offset: a memory operand
\* with a base register and an offset, or a stack variable.
HasImmOffset ==
  /\ lastOp.name \in {"ldr", "str", "vldrd", "vldrs", "vstrd", "vstrs"}
  /\ \/ lastOp.Address.kind = "Mem" /\ ~lastOp.Address.isRegReg
     \/ lastOp.Address.kind = "Variable" /\ ~lastOp.Address.hasReg

\* Its offset, the magnitude of the offset, and its base register.
MemOffset ==
  IF lastOp.Address.kind = "Mem" THEN lastOp.Address.Offset
  ELSE lastOp.Address.StackOffset

MemOffsetAbs == IF MemOffset < 0 THEN -MemOffset ELSE MemOffset

MemBaseReg ==
  IF lastOp.Address.kind = "Mem" THEN lastOp.Address.Base.RegNum
  ELSE TInfoSp.FrameOrStackReg

\* The immediate form lastOp uses, and the largest offset magnitude the form
\* lets through.
ImmFormOf ==
  IF lastOp.name \in {"ldr", "str"}
  THEN IF lastOp.Ty = "i16" THEN "RotatedImm8Enc3Address" ELSE "Imm12Address"
  ELSE "RotatedImm8Div4Address"

FormMaxOffset ==
  CASE ImmFormOf = "Imm12Address" -> 2 ^ 12 - 1
    [] ImmFormOf = "RotatedImm8Enc3Address" -> 2 ^ 8 - 1
    [] ImmFormOf = "RotatedImm8Div4Address" -> 2 ^ 8 - 1

\* The offset a word of the form denotes: imm12 in bits 0..11, imm8 split
\* over bits 8..11 and 0..3, or imm8 in bits 0..7 counting words.
OffsetField(w) ==
  CASE ImmFormOf = "Imm12Address" -> w.lo % (2 ^ 12)
    [] ImmFormOf = "RotatedImm8Enc3Address" ->
         16 * ((w.lo \div (2 ^ 8)) % 16) + (w.lo % 16)
    [] ImmFormOf = "RotatedImm8Div4Address" -> 4 * (w.lo % (2 ^ 8))

\* C19: for the imm12, halfword and divided-by-4 immediate forms, a request
\* whose offset magnitude is beyond the maximum of its form (a stack variable
\* at 256..4095 with an 8-bit form included) is a fatal error and appends no
\* word; a word that is appended holds exactly the offset in the offset
\* field, and the base and transfer register fields next to it are those
\* of the request.
C19_OffsetBeyondFormFails ==
  HasImmOffset =>
    /\ MemOffsetAbs > FormMaxOffset => AppendedNone
    /\ AppendedOne =>
         /\ OffsetField(LastWord) = MemOffsetAbs
         /\ getGPRReg(kRnShift, LastWord) = MemBaseReg
         /\ lastOp.name \in {"ldr", "str"} =>
              getGPRReg(kRdShift, LastWord) = lastOp.Rt.RegNum

\* A halfword load from a stack variable at offset 256 has failed.
C19_Witness ==
  /\ lastOp.name = "ldr"
  /\ lastOp.Ty = "i16"
  /\ lastOp.Rt = Reg(Encoded_Reg_r0)
  /\ lastOp.Address = StackVar(256)
  /\ Fatal = "assert: Imm8 < (1 << 8)"
  /\ BufferSize(Buffer) = lastOp.size

\* Bit 23 (U) of a word.
UBit(w) == (w.lo \div (2 ^ 23)) % 2

\* The floating-point loads and stores treat offsets as follows: a 4-aligned
\* offset of magnitude at most MaxAbs, in the plain offset mode, is emitted
\* with imm8 = |offset| >> 2 and U = 1 iff offset >= 0; any other offset
\* fails and appends nothing.
VMemOffsetRule(MaxAbs) ==
  (/\ lastOp.name \in {"vldrd", "vldrs", "vstrd", "vstrs"}
   /\ HasImmOffset
   /\ lastOp.Address.kind = "Mem" => lastOp.Address.AddrMode = AddrOffset) =>
    IF MemOffsetAbs <= MaxAbs /\ MemOffset % 4 = 0
    THEN /\ AppendedOne
         /\ LastWord.lo % (2 ^ 8) = MemOffsetAbs \div 4
         /\ UBit(LastWord) = IF MemOffset >= 0 THEN 1 ELSE 0
    ELSE AppendedNone

\* C20 as stated: vldrd, vldrs, vstrd and vstrs accept every 4-aligned offset
\* of magnitude at most 1020, encode it as imm8 = |offset| >> 2 with U = 1
\* iff offset >= 0, and fail on larger or unaligned offsets.
C20_AcceptsUpTo1020 == VMemOffsetRule(1020)

\* The constant shift amount of the operand of lastOp, as a signed number.
ShiftAmountOf ==
  LET Amt == lastOp.Opnd.ShiftAmt
  IN IF Amt.kind = "ShAmtImm" THEN Amt.ShAmtImm
     ELSE IF Amt.Value.hi >= 128 THEN (Amt.Value.hi - 256) * (2 ^ 24) + Amt.Value.lo
     ELSE Amt.Value.hi * (2 ^ 24) + Amt.Value.lo

Imm16Field(w) == ((w.lo \div (2 ^ 16)) % 16) * (2 ^ 12) + (w.lo % (2 ^ 12))

\* C22: movw (movt) of a relocatable symbol into a register appends exactly
\* one word whose 16-bit immediate is zero and installs exactly one fixup,
\* for that symbol, at the position of that word, of kind R_ARM_MOVW_ABS_NC
\* (R_ARM_MOVT_ABS); no two fixups share a position.
C22_MovwtSymbolFixup ==
  /\ (/\ lastOp.name \in {"movw", "movt"}
      /\ lastOp.Src.kind = "ConstantRelocatable"
      /\ lastOp.Rd.hasReg) =>
       /\ AppendedOne
       /\ Imm16Field(LastWord) = 0
       /\ LastWord.hi = 16 * lastOp.Cond + 3
       /\ (LastWord.lo \div (2 ^ 20)) % 16 = (IF lastOp.name = "movw" THEN 0 ELSE 4)
       /\ Len(Fixups) = lastOp.fixups + 1
       /\ SubSeq(Fixups, 1, lastOp.fixups) = SubSeq(Fixups, 1, Len(Fixups) - 1)
       /\ Fixups[Len(Fixups)] =
            [position |-> lastOp.size,
             kind |-> IF lastOp.name = "movw" THEN R_ARM_MOVW_ABS_NC ELSE R_ARM_MOVT_ABS,
             value |-> lastOp.Src.Name]
  /\ lastOp.name \in {"init", "movw", "movt"} =>
       \A i, j \in 1 .. Len(Fixups) : i # j => Fixups[i].position # Fixups[j].position

\* movw r0, #:lower16:f followed by movt r0, #:upper16:f: two records for f,
\* one of each kind, at the positions of the two words.
C22_Witness ==
  /\ lastOp.name = "movt"
  /\ lastOp.Src = Relocatable("f")
  /\ Fatal = NoError
  /\ BufferSize(Buffer) = 2 * kWordSize
  /\ Fixups = << [position |-> 0, kind |-> R_ARM_MOVW_ABS_NC, value |-> "f"],
                 [position |-> kWordSize, kind |-> R_ARM_MOVT_ABS, value |-> "f"] >>
  /\ BufferLoad(Buffer, 0) = [hi |-> 227, lo |-> 0]
  /\ BufferLoad(Buffer, kWordSize) = [hi |-> 227, lo |-> 4194304]

\* C23 as stated: a word-sized ldr or str whose encoded address has base sp,
\* P = 0, U = 1, W = 0 and imm12 = 4 is rejected with "Use push/pop instead"
\* and appends no word.
C23_PopFormRejected ==
  (/\ lastOp.name \in {"ldr", "str"}
   /\ lastOp.Ty = "i32"
   /\ MemEncodedAddress.fatal = NoError
   /\ MemEncodedAddress.enc = "EncodedAsImmRegOffset"
   /\ getGPRReg(kRnShift, MemEncodedAddress.value) = Encoded_Reg_sp
   /\ PBit(MemEncodedAddress.value) = 0
   /\ UBit(MemEncodedAddress.value) = 1
   /\ WBit(MemEncodedAddress.value) = 0
   /\ mask(MemEncodedAddress.value, kImm12Shift, kImmed12Bits) = 4) =>
    /\ AppendedNone
    /\ Fatal = lastOp.name \o ": Use push/pop instead"

\* C26: bind(L) changes only the low 24 bits of the words at the pending
\* sites of L: bits 24..31 of those words, every other word, the buffer
\* size, the fixup list and the state of every other label stay as they were.
C26_BindFrame ==
  [][lastOp'.name = "bind" =>
       LET l == lastOp'.label
           sites == ChainSites(l)
       IN /\ BufferSize(Buffer') = BufferSize(Buffer)
          /\ Fixups' = Fixups
          /\ \A m \in LabelIds \ {l} : Labels'[m] = Labels[m]
          /\ \A k \in 0 .. (BufferSize(Buffer) \div kWordSize) - 1 :
               LET p == k * kWordSize
               IN IF p \in sites
                  THEN BufferLoad(Buffer', p).hi = BufferLoad(Buffer, p).hi
                  ELSE BufferLoad(Buffer', p) = BufferLoad(Buffer, p)]_vars

\* After b(0), bl, b(1), b(0), label 0 has been bound: its two sites are
\* patched, the call and the branch to label 1 are as they were.
C26_Witness ==
  /\ lastOp = [name |-> "bind", label |-> 0, size |-> 4 * kWordSize]
  /\ Fatal = NoError
  /\ isBound(Labels[0])
  /\ isLinked(Labels[1])
  /\ Len(Fixups) = 1
  /\ BufferLoad(Buffer, 0) = [hi |-> 234, lo |-> 2]
  /\ BufferLoad(Buffer, kWordSize) = [hi |-> 235, lo |-> 16777214]
  /\ BufferLoad(Buffer, 2 * kWordSize) = [hi |-> 234, lo |-> 16777214]
  /\ BufferLoad(Buffer, 3 * kWordSize) = [hi |-> 234, lo |-> 16777215]

\* C27: bind(L) on an unbound label ends.  The chain it walks is finite and
\* strictly decreasing in buffer position from the most recent reference,
\* holds each pending site exactly once and ends at the site whose link
\* field is the end-of-chain sentinel; every site is patched to lead to the
\* bound position, L is left bound and not linked, and a label without
\* references is bound without a store.
C27_BindWalkEnds ==
  [][(lastOp'.name = "bind" /\ ~isBound(Labels[lastOp'.label])) =>
       LET l == lastOp'.label
           c == Chain(l)
           sites == {c[i] : i \in 1 .. Len(c)}
           BoundPc == BufferSize(Buffer)
       IN /\ Len(c) <= BoundPc \div kWordSize
          /\ Cardinality(sites) = Len(c)
          /\ sites = fwdRefs[l]
          /\ \A i \in 1 .. Len(c) : c[i] % kWordSize = 0 /\ c[i] >= 0 /\ c[i] < BoundPc
          /\ \A i \in 1 .. Len(c) - 1 : c[i + 1] < c[i]
          /\ Len(c) > 0 =>
               /\ c[1] = getLinkPosition(Labels[l])
               /\ ~isLinked(decodeBranchOffset(BufferLoad(Buffer, c[Len(c)])))
          /\ Fatal' = NoError
          /\ \A site \in sites :
               site + decodeBranchOffset(BufferLoad(Buffer', site)) = BoundPc
          /\ isBound(Labels'[l])
          /\ ~isLinked(Labels'[l])
          /\ getPosition(Labels'[l]) = BoundPc
          /\ isUnused(Labels[l]) => Buffer' = Buffer]_vars

\* A label with three pending sites has been bound: the walk went through
\* positions 8, 4 and 0.
C27_Witness ==
  /\ lastOp = [name |-> "bind", label |-> 0, size |-> 3 * kWordSize]
  /\ fwdRefs[0] = {0, kWordSize, 2 * kWordSize}
  /\ Fatal = NoError
  /\ isBound(Labels[0])
  /\ BufferLoad(Buffer, 0) = [hi |-> 234, lo |-> 1]
  /\ BufferLoad(Buffer, kWordSize) = [hi |-> 234, lo |-> 0]
  /\ BufferLoad(Buffer, 2 * kWordSize) = [hi |-> 234, lo |-> 16777215]

\* C28: in any order of lookups, an entry of the label table that holds a
\* Label is never replaced, no two numbers hold the same Label, a lookup
\* returns the entry of its number (the same Label as every earlier lookup
\* of that number) and changes no label's position: linked and bound labels
\* stay as they were.
C28_LabelTableStable ==
  [][/\ \A i \in 1 .. Len(CfgNodeLabels) :
          CfgNodeLabels[i] # nullptr =>
            Len(CfgNodeLabels') >= i /\ CfgNodeLabels'[i] = CfgNodeLabels[i]
     /\ \A i, j \in 1 .. Len(CfgNodeLabels') :
          (i # j /\ CfgNodeLabels'[i] # nullptr) => CfgNodeLabels'[i] # CfgNodeLabels'[j]
     /\ lastOp'.name = "getOrCreateCfgNodeLabel" =>
          /\ lastOp'.L \in LabelIds
          /\ CfgNodeLabels'[lastOp'.Number + 1] = lastOp'.L
          /\ Labels' = Labels
          /\ Buffer' = Buffer
          /\ Allocated' > Allocated => isUnused(Labels[lastOp'.L])
     /\ lastOp'.name = "bindCfgNodeLabel" =>
          CfgNodeLabels'[lastOp'.Number + 1] = lastOp'.label]_vars

\* Node 2 was looked up in an empty table and its Label linked by a branch,
\* then node 0 was looked up: it got the second Label, in a slot the resize
\* had left empty, and the first Label is still linked.
C28_Witness ==
  /\ lastOp = [name |-> "getOrCreateCfgNodeLabel", Number |-> 0, L |-> 1]
  /\ CfgNodeLabels = <<1, nullptr, 0>>
  /\ isLinked(Labels[0])
  /\ isUnused(Labels[1])

\* C24: over any sequence of getEntry() calls the protection change and the
\* image load happen exactly once, on the first call; a later call changes
\* nothing and returns the cached entry.  (Stated for a streamer that holds
\* data.)
C24_LoadsImageOnce ==
  [][(lastOp'.name = "getEntry" /\ buffer # << >>) =>
       IF loads = 0
       THEN loads' = 1 /\ protection' = PAGE_EXECUTE_READWRITE
       ELSE /\ UNCHANGED <<buffer, position, entry, oldProtection, protection, loads>>
            /\ lastOp'.result = entry]_vars

\* C25: after the first getEntry() every write8 and writeBytes, also after a
\* seek, fails and leaves the bytes of the buffer as they were.  (Stated for
\* a streamer that held data when getEntry() was called.)
C25_NoWriteAfterGetEntry ==
  [][(loads > 0 /\ buffer # << >> /\ lastOp'.name \in {"write8", "writeBytes"}) =>
       /\ buffer' = buffer
       /\ lastOp'.Bytes # << >> => Fatal' # NoError]_vars

\* C29: before getEntry, writeBytes(b) leaves the buffer and tell() as write8
\* on each byte of b in order does, and the bytes lie at the offset tell()
\* returned before the call.
C29_WriteBytesAsWrite8 ==
  [][(loads = 0 /\ lastOp'.name = "writeBytes") =>
       LET r == write8Each(buffer, position, lastOp'.Bytes)
           n == Len(lastOp'.Bytes)
       IN /\ buffer' = r.buffer
          /\ position' = r.position
          /\ Fatal' = r.fatal
          /\ n > 0 => Len(buffer') >= lastOp'.at + n
          /\ \A i \in 1 .. n : buffer'[lastOp'.at + i] = lastOp'.Bytes[i]]_vars

\* The threads whose Nucleus is live: the constructor has returned and the
\* destructor has not finished.
LiveThreads == {t \in Threads : pc[t] \in {"live", "unlock"}}
InsideNucleus == {t \in Threads : pc[t] \in {"flags", "create", "live", "unlock"}}
BlockedThreads == {t \in Threads : pc[t] = "blocked"}
OneLiveNucleus ==
  /\ Cardinality(InsideNucleus) <= 1
  /\ \A t \in InsideNucleus : codegenMutex = t
  /\ \A t \in LiveThreads : context = t /\ routine = t
  /\ lastOp.name = "createFunction" => lastOp.context = lastOp.thread

\* C30 as stated: at most one Nucleus is live at any time and the globals of
\* the code generator belong to it, and every thread blocked in the
\* constructor proceeds once the mutex has been released.
C30_BlockedThreadProceeds ==
  /\ []OneLiveNucleus
  /\ \A t \in Threads : (pc[t] = "blocked" /\ mutexFree) ~> (pc[t] # "blocked")

\* C30, amended: at most one Nucleus is live at any time and the globals of
\* the code generator belong to it, and once the live Nucleus is destroyed
\* while threads are blocked in the constructor, some thread takes the mutex.
C30_SomeThreadProceeds ==
  /\ []OneLiveNucleus
  /\ (BlockedThreads # {} /\ mutexFree) ~> (codegenMutex # Unlocked)

\* A thread that was blocked in the constructor owns the live Nucleus and
\* has created its function while another thread is blocked.
C30_Witness ==
  \E t \in waited, u \in Threads :
    /\ pc[t] = "live"
    /\ function = t
    /\ context = t
    /\ pc[u] = "blocked"

====
